---------------------------- MODULE Spec2Model ----------------------------
(***************************************************************************)
(* A model of the trade-opportunity detection and two-leg order execution  *)
(* engine of the market dashboard:                                         *)
(*   - calculations.py : calculate_arbitrage_opportunities                 *)
(*   - order_manager.py: place_order, execute_order_sequence,              *)
(*                       place_arbitrage_orders, place_cash_futures_orders *)
(*   - main.py         : the execute buttons and store_order_history calls *)
(*   - v3-working-test.py: check_order_status, update_order_statuses over  *)
(*                       the rows the placement cycle marked Order_Placed  *)
(*                                                                         *)
(* Numbers.  Prices are integers (one unit = one tick).  A Python float    *)
(* that is a quotient is kept as an exact fraction [n, d] with d > 0, and  *)
(* compared by cross-multiplication.  Volumes are counted in units of      *)
(* 1,000,000 shares, so that avg_volume / 1000000 is (v1 + v2) / 2.        *)
(***************************************************************************)
EXTENDS Integers, Sequences, FiniteSets, TLC

VARIABLES
    \* ---- spread engine (calculations.py) ----
    live_prices_data,      \* the quote list handed to the evaluator
    min_profit_threshold,  \* the threshold argument, in 1/100 of a percent
    arbitrage_data,        \* the list returned by the evaluator
    evaluated,             \* TRUE once arbitrage_data is the evaluator's result
    \* ---- order orchestration (order_manager.py, main.py) ----
    pc,                    \* position of the dashboard click handler
    todo,                  \* batches still to be executed by the current click
    order_sequence,        \* the legs of the batch being executed
    leg,                   \* number of legs of order_sequence sent so far
    results,               \* the list execute_order_sequence is building
    returned,              \* the batch results handed back to the caller, one per batch
    gateway_calls,         \* every call the program made on the gateway, in order
    gateway_answers,       \* the gateway's answers to its place_order calls, in order
    in_flight,             \* gateway calls sent and not yet returned
    next_order_id,         \* the gateway's order id counter
    order_history,         \* rows of the order_history table
    clicks,                \* execute clicks handled so far
    \* ---- status reconciliation (v3-working-test.py) ----
    rows,                  \* the Actions sheet, one record per data row
    exchange_events,       \* per order id, the event history held by the gateway
    rpc,                   \* position of update_order_statuses
    ridx,                  \* row index of the reconciliation loop
    snapshot,              \* rows as read by sheet.get_all_values()
    status_updates,        \* accumulated batch of status writes
    updated_count,         \* counter of update_order_statuses
    error_count,           \* counter of update_order_statuses
    polled,                \* rows polled in the current cycle, with the outcome
    cycles,                \* reconciliation cycles completed
    \* ---- check_order_status taken alone ----
    kite_order_history,    \* what kite.order_history(order_id) answered
    latest_status,         \* the event check_order_status took as the latest
    reported,              \* what check_order_status returned for it
    \* ---- theta tab: contracts and cash-futures evaluation (calculations.py) ----
    stock_symbols,         \* the symbol list handed to both functions
    lot_size_map,          \* LOT_SIZE_MAP, per symbol: no key, or the stored value
    instruments,           \* what kite.instruments("NFO") answered
    futures_data,          \* the mapping handed to the cash-futures evaluator
    theta_quotes,          \* what kite.quote(quote_symbols) answered
    opportunities,         \* the list returned by the cash-futures evaluator
    tpc,                   \* position of the theta tab's scan
    \* ---- margin panel (calculations.py, main.py) ----
    market_open,           \* what render_sidebar reported for the session
    kite_margins,          \* what kite.margins() answers: raised, or the cash figure
    margin_call,           \* the arguments of a calculate_margin_required call
    margin_required,       \* what that call returned
    \* ---- venue auto-detection (place_order_logics.py, v3-working-test.py) ----
    venue_symbol,          \* the symbol handed to the three copies of the rule
    detected,              \* the venue each copy chose
    \* ---- place_order taken alone (order_manager.py) ----
    place_answer,          \* what kite.place_order did: returned an id, or raised a text
    place_result,          \* what place_order returned for it
    \* ---- durable log (database.py); its third table is order_history ----
    arbitrage_spreads,     \* rows of the table arbitrage_spreads, in insertion order
    cash_futures_spreads,  \* rows of the table cash_futures_spreads, in insertion order
    store_calls,           \* the store calls made so far and how each ended
    \* ---- sheet-driven placement cycles (v3-working-test.py) ----
    actions_sheet,         \* data rows of the Actions sheet, columns A to G
    sheet_orders,          \* the row of each order the gateway accepted, by order id
    place_cycles,          \* placement cycles run so far
    \* ---- the clock of the session (ui_sidebar.py) ----
    current_time           \* get_indian_time() of the script run, in minutes of the day

arbVars   == <<live_prices_data, min_profit_threshold, arbitrage_data, evaluated>>
orderVars == <<pc, todo, order_sequence, leg, results, returned, gateway_calls,
               gateway_answers, in_flight, next_order_id, order_history, clicks>>
reconVars == <<rows, exchange_events, rpc, ridx, snapshot, status_updates,
               updated_count, error_count, polled, cycles>>
statusVars == <<kite_order_history, latest_status, reported>>
thetaVars == <<stock_symbols, lot_size_map, instruments, futures_data, theta_quotes,
               opportunities, tpc>>
marginVars == <<market_open, kite_margins, margin_call, margin_required>>
venueVars == <<venue_symbol, detected>>
placeVars == <<place_answer, place_result>>
logVars == <<arbitrage_spreads, cash_futures_spreads, store_calls>>
sheetVars == <<actions_sheet, sheet_orders, place_cycles>>
clockVars == <<current_time>>
sideVars == <<placeVars, logVars, sheetVars, clockVars>>
vars == <<arbVars, orderVars, reconVars, statusVars, thetaVars, marginVars, venueVars,
          sideVars>>

---------------------------------------------------------------------------
(* Generic helpers *)

Min2(a, b) == IF a < b THEN a ELSE b

Abs(a) == IF a < 0 THEN -a ELSE a

Range(s) == {s[i] : i \in DOMAIN s}

\* Fractions [n, d], d > 0.
Frac(n, d) == [n |-> n, d |-> d]

FracLT(a, b) == a.n * b.d < b.n * a.d

FracGT(a, b) == FracLT(b, a)

FracEQ(a, b) == a.n * b.d = b.n * a.d

RECURSIVE Gcd(_, _)
Gcd(a, b) == IF b = 0 THEN a ELSE Gcd(b, a % b)

\* A quotient of two numbers, kept in lowest terms.
FracReduce(f) ==
    LET g == Gcd(Abs(f.n), f.d)
    IN Frac(f.n \div g, f.d \div g)

---------------------------------------------------------------------------
(* Bounds of the model *)

\* Prices of the quote universe are 0 (a dead quote) and BasePrice + 0..MaxTick.
MaxTick == 2

\* Volumes are 0..MaxVolume (millions of shares); 0 is a quote without volume.
MaxVolume == 1

\* Longest quote list handed to the evaluator.
MaxQuotes == 2

\* Largest quantity / number of lots typed into the dashboard.
MaxQty == 2

\* Execute clicks followed in one behaviour.
MaxClicks == 1

\* Exchange timestamps are 0..MaxTs (seconds from datetime.min).
MaxTs == 3

\* Longest event history answered for one order when check_order_status is
\* taken alone.
MaxEvents == 3

\* Longest event history an order accumulates during reconciliation.
MaxHist == 2

\* Reconciliation cycles followed in one behaviour.
MaxCycles == 2


---------------------------------------------------------------------------
(* Spread engine: calculate_arbitrage_opportunities (calculations.py)       *)

Symbols == {"A", "B"}

\* Quotes of two venues at the edge of the 0.05% threshold: with a lower
\* price of 2000, a difference of 1 tick is exactly 0.05%.
BasePrice == 2000

Prices == {0} \cup {BasePrice + t : t \in 0..MaxTick}

Volumes == 0..MaxVolume

\* One element of live_prices_data (format_live_price_data's dict, reduced
\* to the fields the evaluator reads).
Quotes == [symbol : Symbols, exchange : {"NSE", "BSE"},
           last_price : Prices, volume : Volumes]

\* Threshold arguments, in 1/100 of a percent: 0.0, 0.05 (the default), 0.1, 0.2.
Thresholds == {0, 5, 10, 20}

\* The gross profitability threshold 0.05 (percent) of calculations.py:132.
ProfitableAbove == Frac(5, 100)

\* stock_groups: key order is the order of first occurrence of each symbol.
RECURSIVE GroupKeys(_)
GroupKeys(live) ==
    IF live = << >> THEN << >>
    ELSE LET front == GroupKeys(SubSeq(live, 1, Len(live) - 1))
             sym   == live[Len(live)].symbol
         IN IF sym \in Range(front) THEN front ELSE Append(front, sym)

\* stock_groups[symbol]: the exchanges quoted for the symbol.
GroupExchanges(live, sym) ==
    {live[i].exchange : i \in {j \in DOMAIN live : live[j].symbol = sym}}

\* stock_groups[symbol][exchange]: a later quote overwrites an earlier one.
GroupQuote(live, sym, ex) ==
    LET idx == {j \in DOMAIN live : live[j].symbol = sym /\ live[j].exchange = ex}
    IN live[CHOOSE j \in idx : \A k \in idx : k <= j]

\* price_diff_pct = (price_diff / min(nse_price, bse_price)) * 100
PriceDiffPct(nse_price, bse_price) ==
    Frac(Abs(nse_price - bse_price) * 100, Min2(nse_price, bse_price))

\* The mutated flag: profitability read off the caller's threshold, not-strict.
IsProfitableByThreshold(pct, thr) == ~FracLT(pct, Frac(thr, 100))

\* is_profitable = price_diff_pct > 0.05 (the threshold argument is not read)
IsProfitable(pct, thr) == FracGT(pct, ProfitableAbove)

\* The mutated comparison: the venue with the lower price is called higher.
NseLower(nse_price, bse_price) == nse_price < bse_price

\* if nse_price > bse_price: NSE is the higher venue; else (equal prices
\* included) BSE is.
NseHigher(nse_price, bse_price) == nse_price > bse_price

\* The dict appended to arbitrage_data for one symbol.
ArbEntry(sym, nse, bse, thr) ==
    LET nse_price == nse.last_price
        bse_price == bse.last_price
        pct       == PriceDiffPct(nse_price, bse_price)
        nseHigher == NseHigher(nse_price, bse_price)
    IN [symbol               |-> sym,
        nse_price            |-> nse_price,
        bse_price            |-> bse_price,
        price_difference     |-> Abs(nse_price - bse_price),
        price_difference_pct |-> pct,
        profit_per_share     |-> Abs(nse_price - bse_price),
        higher_exchange      |-> IF nseHigher THEN "NSE" ELSE "BSE",
        lower_exchange       |-> IF nseHigher THEN "BSE" ELSE "NSE",
        higher_price         |-> IF nseHigher THEN nse_price ELSE bse_price,
        lower_price          |-> IF nseHigher THEN bse_price ELSE nse_price,
        nse_volume           |-> nse.volume,
        bse_volume           |-> bse.volume,
        \* price_diff_pct * (avg_volume / 1000000), avg_volume = (v1 + v2) / 2
        arbitrage_score      |-> Frac(pct.n * (nse.volume + bse.volume), pct.d * 2),
        is_profitable        |-> IsProfitable(pct, thr)]

\* The mutated guards: one positive price is enough.
ArbEligibleOnePositive(live, sym, thr) ==
    /\ {"NSE", "BSE"} \subseteq GroupExchanges(live, sym)
    /\ \/ GroupQuote(live, sym, "NSE").last_price > 0
       \/ GroupQuote(live, sym, "BSE").last_price > 0
    /\ ~FracLT(PriceDiffPct(GroupQuote(live, sym, "NSE").last_price,
                            GroupQuote(live, sym, "BSE").last_price),
               Frac(thr, 100))

\* The guards of the evaluator's loop body for one symbol.
ArbEligible(live, sym, thr) ==
    /\ {"NSE", "BSE"} \subseteq GroupExchanges(live, sym)
    /\ GroupQuote(live, sym, "NSE").last_price > 0
    /\ GroupQuote(live, sym, "BSE").last_price > 0
    /\ ~FracLT(PriceDiffPct(GroupQuote(live, sym, "NSE").last_price,
                            GroupQuote(live, sym, "BSE").last_price),
               Frac(thr, 100))

\* arbitrage_data before the sort: one entry per eligible symbol, in key order.
RECURSIVE ArbCollect(_, _, _)
ArbCollect(live, keys, thr) ==
    IF keys = << >> THEN << >>
    ELSE LET sym  == Head(keys)
             rest == ArbCollect(live, Tail(keys), thr)
         IN IF ArbEligible(live, sym, thr)
            THEN <<ArbEntry(sym, GroupQuote(live, sym, "NSE"),
                            GroupQuote(live, sym, "BSE"), thr)>> \o rest
            ELSE rest

\* The mutated sort: an entry goes before the entries of equal score.
RECURSIVE InsertByScoreBeforeEqual(_, _)
InsertByScoreBeforeEqual(sorted, e) ==
    IF sorted = << >> THEN <<e>>
    ELSE IF ~FracLT(e.arbitrage_score, Head(sorted).arbitrage_score)
         THEN <<e>> \o sorted
         ELSE <<Head(sorted)>> \o InsertByScoreBeforeEqual(Tail(sorted), e)

\* list.sort(key=score, reverse=True): stable, equal scores keep their order.
RECURSIVE InsertByScore(_, _)
InsertByScore(sorted, e) ==
    IF sorted = << >> THEN <<e>>
    ELSE IF FracLT(Head(sorted).arbitrage_score, e.arbitrage_score)
         THEN <<e>> \o sorted
         ELSE <<Head(sorted)>> \o InsertByScore(Tail(sorted), e)

RECURSIVE SortByScoreDesc(_)
SortByScoreDesc(s) ==
    IF s = << >> THEN << >>
    ELSE InsertByScore(SortByScoreDesc(SubSeq(s, 1, Len(s) - 1)), s[Len(s)])

calculate_arbitrage_opportunities(live, thr) ==
    IF live = << >> THEN << >>
    ELSE SortByScoreDesc(ArbCollect(live, GroupKeys(live), thr))


---------------------------------------------------------------------------
(* Python values that reach place_cash_futures_orders through loosely      *)
(* typed dicts and widgets: None, ints, floats (kept in tenths), strings.  *)

PyNone      == [t |-> "none", v |-> 0]
PyIntV(n)   == [t |-> "int", v |-> n]
PyFloatV(n) == [t |-> "float", v |-> n]      \* the float n / 10
PyIntStr(n) == [t |-> "intstr", v |-> n]     \* the string str(n), e.g. "3"
PyBadStr    == [t |-> "badstr", v |-> 0]     \* a non-numeric string, e.g. "abc"
PyEmptyStr  == [t |-> "emptystr", v |-> 0]   \* ""

\* bool(x)
PyTruthy(x) ==
    CASE x.t = "none"     -> FALSE
      [] x.t = "int"      -> x.v # 0
      [] x.t = "float"    -> x.v # 0
      [] x.t = "intstr"   -> TRUE
      [] x.t = "badstr"   -> TRUE
      [] x.t = "emptystr" -> FALSE

\* x or y
PyOr(x, y) == IF PyTruthy(x) THEN x ELSE y

\* int(x) raises TypeError / ValueError
PyIntRaises(x) == x.t \in {"none", "badstr", "emptystr"}

\* int(x) where it does not raise: floats truncate toward zero
PyIntValue(x) ==
    CASE x.t = "int"    -> x.v
      [] x.t = "intstr" -> x.v
      [] x.t = "float"  -> IF x.v >= 0 THEN x.v \div 10 ELSE -((-x.v) \div 10)

\* The mutated conversion: the value is not raised to 1 when it is below 1.
ConvertWithoutClamp(x) ==
    LET y == PyOr(x, PyIntV(1))
    IN IF PyIntRaises(y) THEN 1 ELSE PyIntValue(y)

\* The defensive conversion applied to lot_size and to lots:
\*   v = x or 1; try: v = int(v) except: v = 1; if v < 1: v = 1
ClampToPositiveInt(x) ==
    LET y == PyOr(x, PyIntV(1))
        n == IF PyIntRaises(y) THEN 1 ELSE PyIntValue(y)
    IN IF n < 1 THEN 1 ELSE n

---------------------------------------------------------------------------
(* Order orchestration: order_manager.py                                   *)

\* Optional values: << >> is None, <<x>> is x.
None == << >>
Some(x) == <<x>>

\* place_order's normalisation of the price: None for a market order.
PriceValue(order_type, price) == IF order_type = "MARKET" THEN None ELSE price

\* The one gateway call place_order makes: kite.place_order(...).
PlaceOrderCall(symbol, exchange, transaction_type, quantity, price, product, order_type) ==
    [op               |-> "place_order",
     variety          |-> "regular",
     exchange         |-> exchange,
     tradingsymbol    |-> symbol,
     transaction_type |-> transaction_type,
     quantity         |-> quantity,
     product          |-> product,
     order_type       |-> order_type,
     price            |-> PriceValue(order_type, price)]

\* place_order's return value when kite.place_order returned order_id.
PlaceOrderSuccess(order_id) ==
    [success |-> TRUE, order_id |-> Some(order_id), message |-> "Order placed successfully"]

\* An error text is the sequence of its pieces: the two phrases the rule
\* looks for, the word between a phrase and its number, single characters of
\* a number, and other text in one piece.
RequiredMargin == "Required margin"
AvailableMargin == "available margin"
Is == " is "

\* the characters [\d.] stands for
NumberChars == {"0", "1", "2", "3", "4", "5", "6", "7", "8", "9", "."}

\* "Required margin" in error_msg
Mentions(error_msg, phrase) == \E i \in DOMAIN error_msg : error_msg[i] = phrase

\* ([\d.]+), greedy: the run of number characters that starts at position i
RECURSIVE NumberRun(_, _)
NumberRun(error_msg, i) ==
    IF i > Len(error_msg) \/ error_msg[i] \notin NumberChars THEN << >>
    ELSE <<error_msg[i]>> \o NumberRun(error_msg, i + 1)

\* re.search(phrase + ' is ([\d.]+)', error_msg): group(1) of the leftmost
\* match, None when there is no match
SearchNumber(error_msg, phrase) ==
    LET at == {i \in 1..(Len(error_msg) - 2) :
                  /\ error_msg[i] = phrase
                  /\ error_msg[i + 1] = Is
                  /\ error_msg[i + 2] \in NumberChars}
    IN IF at = {} THEN None
       ELSE Some(NumberRun(error_msg, (CHOOSE i \in at : \A j \in at : i <= j) + 2))

\* float(text) of a run of number characters raises ValueError unless the
\* run holds a digit and at most one point
FloatRaises(text) ==
    \/ Cardinality({i \in DOMAIN text : text[i] = "."}) > 1
    \/ \A i \in DOMAIN text : text[i] = "."

DigitValue(c) ==
    CASE c = "0" -> 0 [] c = "1" -> 1 [] c = "2" -> 2 [] c = "3" -> 3 [] c = "4" -> 4
      [] c = "5" -> 5 [] c = "6" -> 6 [] c = "7" -> 7 [] c = "8" -> 8 [] c = "9" -> 9

RECURSIVE DigitsNumber(_)
DigitsNumber(ds) ==
    IF ds = << >> THEN 0
    ELSE DigitsNumber(SubSeq(ds, 1, Len(ds) - 1)) * 10 + DigitValue(ds[Len(ds)])

RECURSIVE Pow10(_)
Pow10(k) == IF k = 0 THEN 1 ELSE 10 * Pow10(k - 1)

\* float(text) when it does not raise, as a quotient in lowest terms
FloatValue(text) ==
    LET NotPoint(c) == c # "."
        points == {i \in DOMAIN text : text[i] = "."}
        decimals == IF points = {} THEN 0 ELSE Len(text) - (CHOOSE i \in points : TRUE)
    IN FracReduce(Frac(DigitsNumber(SelectSeq(text, NotPoint)), Pow10(decimals)))

\* The margin_info dict of a failed placement; a key that is not set is None.
\* The two assignments run in order inside a try whose except passes, so a
\* float() that raises on the second number leaves the first key set.
ExtractMarginInfo(error_msg) ==
    LET empty == [required |-> None, available |-> None]
    IN IF Mentions(error_msg, RequiredMargin) /\ Mentions(error_msg, AvailableMargin)
       THEN LET required_match == SearchNumber(error_msg, RequiredMargin)
                available_match == SearchNumber(error_msg, AvailableMargin)
            IN IF required_match # None /\ available_match # None
               THEN IF FloatRaises(required_match[1]) THEN empty
                    ELSE IF FloatRaises(available_match[1])
                         THEN [required  |-> Some(FloatValue(required_match[1])),
                               available |-> None]
                         ELSE [required  |-> Some(FloatValue(required_match[1])),
                               available |-> Some(FloatValue(available_match[1]))]
               ELSE empty
       ELSE empty

\* place_order's return value when kite.place_order raised.
PlaceOrderFailure(error_msg) ==
    [success |-> FALSE, order_id |-> None, message |-> error_msg,
     margin_info |-> ExtractMarginInfo(error_msg)]

\* place_order, from what the gateway call did.
place_order(answer) ==
    IF answer.raised THEN PlaceOrderFailure(answer.error_msg)
    ELSE PlaceOrderSuccess(answer.order_id)

\* execute_order_sequence: transaction_type of a leg that carries only "action".
LegTransactionType(order) == IF order.action = "BUY" THEN "BUY" ELSE "SELL"

\* The mutated pair: venues and prices taken the wrong way round.
ArbitrageLegsSwapped(opp, quantity) ==
    LET nseHigher == opp.higher_exchange = "NSE"
        buy_exchange  == IF nseHigher THEN "NSE" ELSE "BSE"
        sell_exchange == IF nseHigher THEN "BSE" ELSE "NSE"
        buy_price     == IF nseHigher THEN opp.nse_price ELSE opp.bse_price
        sell_price    == IF nseHigher THEN opp.bse_price ELSE opp.nse_price
    IN << [action |-> "BUY", market |-> "CASH", symbol |-> opp.symbol,
           exchange |-> buy_exchange, quantity |-> quantity,
           price |-> Some(buy_price), product |-> "MIS", order_type |-> "LIMIT"],
          [action |-> "SELL", market |-> "CASH", symbol |-> opp.symbol,
           exchange |-> sell_exchange, quantity |-> quantity,
           price |-> Some(sell_price), product |-> "MIS", order_type |-> "LIMIT"] >>

\* place_arbitrage_orders: the order_sequence it builds.
\* The mutated pair: the Sell leg is sent for one share.
ArbitrageLegsUnitSell(opp, quantity) ==
    LET nseHigher == opp.higher_exchange = "NSE"
        buy_exchange  == IF nseHigher THEN "BSE" ELSE "NSE"
        sell_exchange == IF nseHigher THEN "NSE" ELSE "BSE"
        buy_price     == IF nseHigher THEN opp.bse_price ELSE opp.nse_price
        sell_price    == IF nseHigher THEN opp.nse_price ELSE opp.bse_price
    IN << [action |-> "BUY", market |-> "CASH", symbol |-> opp.symbol,
           exchange |-> buy_exchange, quantity |-> quantity,
           price |-> Some(buy_price), product |-> "MIS", order_type |-> "LIMIT"],
          [action |-> "SELL", market |-> "CASH", symbol |-> opp.symbol,
           exchange |-> sell_exchange, quantity |-> 1,
           price |-> Some(sell_price), product |-> "MIS", order_type |-> "LIMIT"] >>

ArbitrageLegs(opp, quantity) ==
    LET nseHigher == opp.higher_exchange = "NSE"
        buy_exchange  == IF nseHigher THEN "BSE" ELSE "NSE"
        sell_exchange == IF nseHigher THEN "NSE" ELSE "BSE"
        buy_price     == IF nseHigher THEN opp.bse_price ELSE opp.nse_price
        sell_price    == IF nseHigher THEN opp.nse_price ELSE opp.bse_price
    IN << [action |-> "BUY", market |-> "CASH", symbol |-> opp.symbol,
           exchange |-> buy_exchange, quantity |-> quantity,
           price |-> Some(buy_price), product |-> "MIS", order_type |-> "LIMIT"],
          [action |-> "SELL", market |-> "CASH", symbol |-> opp.symbol,
           exchange |-> sell_exchange, quantity |-> quantity,
           price |-> Some(sell_price), product |-> "MIS", order_type |-> "LIMIT"] >>

\* place_cash_futures_orders: lot_size = opportunity.get('lot_size') or
\* LOT_SIZE_MAP.get(symbol.upper()) or 1, then the defensive conversion.
ResolvedLotSize(opp, map_lot) == ClampToPositiveInt(PyOr(opp.lot_size, map_lot))

\* place_cash_futures_orders: futures_symbol_api or futures_symbol_raw
FuturesOrderSymbol(opp) ==
    IF opp.futures_symbol_api # "" THEN opp.futures_symbol_api ELSE opp.futures_symbol

\* place_cash_futures_orders: the two fire_order calls, as legs.  The price
\* argument of fire_order is not forwarded: place_order is called with None.
CashFuturesLegs(opp, lots, map_lot, cash_product, futures_product) ==
    LET lot_size == ResolvedLotSize(opp, map_lot)
        lots_int == ClampToPositiveInt(lots)
        quantity == lot_size * lots_int
    IN << [action |-> "BUY", market |-> "CASH", symbol |-> opp.symbol,
           exchange |-> "NSE", quantity |-> quantity, lots |-> lots_int,
           lot_size |-> lot_size, price |-> None, product |-> cash_product,
           order_type |-> "MARKET"],
          [action |-> "SELL", market |-> "FUTURES", symbol |-> FuturesOrderSymbol(opp),
           exchange |-> "NFO", quantity |-> quantity, lots |-> lots_int,
           lot_size |-> lot_size, price |-> None, product |-> futures_product,
           order_type |-> "MARKET"] >>


\* What execute_order_sequence sends to the gateway once a leg's result is
\* known, given the legs reported so far: nothing.  The result is appended to
\* results and the loop moves on.  The mutated version cancels the accepted
\* siblings of a rejected leg.
CancelSiblingsOnReject(reports, result) ==
    IF result.success THEN << >>
    ELSE LET accepted == SelectSeq(reports, LAMBDA r : r.result.success)
         IN [k \in 1..Len(accepted) |->
                [op |-> "cancel_order", order_id |-> accepted[k].result.order_id]]

GatewayCallsOnResult(reports, result) == << >>

\* The mutated loop: a rejected leg ends the batch.
StopOnReject(sent, n, result) == IF result.success THEN sent ELSE n

\* The for loop of execute_order_sequence: after the result of a leg, with
\* `sent` legs submitted out of n, the loop resumes at leg sent + 1 whatever
\* the result was (there is no break and no raise).
ResumeAfter(sent, n, result) == sent

\* The mutated call: the program does not wait for kite.place_order to return.
FireAndForget == "send"

\* kite.place_order is a synchronous call: the caller is blocked until the
\* gateway answers.
AfterSend == "wait"

\* order_report = dict(order); order_report["result"] = result
OrderReport(order, result) == [order |-> order, result |-> result]

\* main.py: the dict handed to store_order_history for one leg result.
HistoryRow(symbol, report) ==
    [symbol           |-> symbol,
     order_type       |-> report.order.order_type,
     transaction_type |-> report.order.action,
     exchange         |-> report.order.exchange,
     quantity         |-> report.order.quantity,
     price            |-> report.order.price,
     order_id         |-> report.result.order_id,
     status           |-> IF report.result.success THEN "COMPLETE" ELSE "FAILED"]

---------------------------------------------------------------------------
(* Inputs of the execute buttons *)

\* The products main.py passes for the cash and the futures leg.
CashProduct == "CNC"
FuturesProduct == "NRML"

\* Values of lots, of the opportunity's lot_size and of the LOT_SIZE_MAP entry.
PyValues ==
    {PyNone, PyBadStr, PyEmptyStr, PyIntStr(2), PyFloatV(25), PyFloatV(5)}
    \cup {PyIntV(n) : n \in -1..MaxQty}

\* Entries LOT_SIZE_MAP.get(symbol.upper()) can yield (config.py is not part
\* of the sources: the table's content is an input).
LotSizeMapEntries == {PyNone, PyIntV(0), PyIntV(-1), PyIntV(3), PyBadStr}

\* A cash-futures opportunity, reduced to the fields place_cash_futures_orders reads.
CashFuturesOpps ==
    [symbol : {"A"}, futures_symbol : {"A25NOVFUT"},
     futures_symbol_api : {"", "A25NOV"}, lot_size : PyValues]

---------------------------------------------------------------------------
(* Margin estimate: calculations.py calculate_margin_required.  Amounts    *)
(* are fractions of a rupee.                                               *)

\* The mutated estimate: an unknown product is charged in full.
calculate_margin_required_full(price, quantity, product) ==
    LET order_value == price * quantity
    IN IF product = "MIS" THEN FracReduce(Frac(order_value * 30, 100))
       ELSE Frac(order_value, 1)

\* calculate_margin_required(price, quantity, product="MIS")
calculate_margin_required(price, quantity, product) ==
    LET order_value == price * quantity
    IN IF product = "CNC" THEN Frac(order_value, 1)
       ELSE IF product = "MIS" THEN FracReduce(Frac(order_value * 30, 100))
       ELSE IF product = "NRML" THEN Frac(order_value, 1)
       ELSE FracReduce(Frac(order_value * 30, 100))

---------------------------------------------------------------------------
(* Actions of the dashboard's execute handlers *)

\* main.py:996  arbitrage_data = calculate_arbitrage_opportunities(...)
Evaluate ==
    /\ ~evaluated
    /\ pc = "idle"
    /\ arbitrage_data' = calculate_arbitrage_opportunities(live_prices_data,
                                                           min_profit_threshold)
    /\ evaluated' = TRUE
    /\ UNCHANGED <<live_prices_data, min_profit_threshold, orderVars, reconVars, statusVars, thetaVars, marginVars, venueVars, sideVars>>

\* main.py:1239  "Execute Orders - <symbol>" for one displayed opportunity
ClickExecute ==
    /\ evaluated
    /\ pc = "idle"
    /\ clicks < MaxClicks
    /\ \E i \in DOMAIN arbitrage_data, q \in 1..MaxQty :
          todo' = IF market_open
                  THEN << [kind |-> "arbitrage", opp |-> arbitrage_data[i], quantity |-> q] >>
                  ELSE << >>
    /\ pc' = IF todo' = << >> THEN "idle" ELSE "call"
    /\ clicks' = clicks + 1
    /\ UNCHANGED <<arbVars, order_sequence, leg, results, returned, gateway_calls,
                   gateway_answers, in_flight, next_order_id, order_history,
                   reconVars, statusVars, thetaVars, marginVars, venueVars, sideVars>>

\* main.py:1028  profitable_opportunities
ProfitableOpportunities(data) == SelectSeq(data, LAMBDA opp : opp.is_profitable)

\* calculations.py get_available_margin: 0.0 when kite.margins() raised or
\* holds no figure that is not zero.  answer is None when it raised, else the
\* figure found under the keys the function tries.
get_available_margin(answer) ==
    IF answer = None THEN 0
    ELSE IF answer[1] # 0 THEN answer[1] ELSE 0

\* a + b
FracAdd(a, b) == FracReduce(Frac(a.n * b.d + b.n * a.d, a.d * b.d))

\* main.py:1347-1354  total_margin_required over the profitable opportunities
RECURSIVE TotalMarginRequired(_, _, _)
TotalMarginRequired(profitable, all_quantity, all_order_type) ==
    IF profitable = << >> THEN Frac(0, 1)
    ELSE LET opp == Head(profitable)
             buy_price == IF opp.higher_exchange = "NSE" THEN opp.bse_price ELSE opp.nse_price
             sell_price == IF opp.higher_exchange = "NSE" THEN opp.nse_price ELSE opp.bse_price
         IN FracAdd(FracAdd(calculate_margin_required(buy_price, all_quantity, all_order_type),
                            calculate_margin_required(sell_price, all_quantity, all_order_type)),
                    TotalMarginRequired(Tail(profitable), all_quantity, all_order_type))

\* The mutated condition: the click goes through only when the margin was
\* read and covers the estimate.
\* render_sidebar: market_open = current_time.hour >= 9 and current_time.hour < 17
MarketOpenAt(time) == (time \div 60) >= 9 /\ (time \div 60) < 17

ExecuteAllProceedsIfCovered(open, total_margin_required, available_margin) ==
    /\ open
    /\ available_margin > 0
    /\ ~FracLT(Frac(available_margin, 1), total_margin_required)

\* main.py:1393-1394  what the click handler tests before it places orders:
\* if market_open.  The margin figures of 1347-1383 are shown, not tested.
ExecuteAllProceeds(open, total_margin_required, available_margin) == open

\* main.py:1393  "Execute Orders for All Profitable Opportunities"
ClickExecuteAll ==
    /\ evaluated
    /\ pc = "idle"
    /\ clicks < MaxClicks
    /\ ProfitableOpportunities(arbitrage_data) # << >>
    /\ \E q \in 1..MaxQty, all_order_type \in {"MIS", "CNC", "NRML"} :
          LET profitable == ProfitableOpportunities(arbitrage_data)
          IN todo' = IF ExecuteAllProceeds(market_open,
                                           TotalMarginRequired(profitable, q, all_order_type),
                                           get_available_margin(kite_margins))
                     THEN [k \in DOMAIN profitable |->
                              [kind |-> "arbitrage", opp |-> profitable[k], quantity |-> q]]
                     ELSE << >>
    /\ pc' = IF todo' = << >> THEN "idle" ELSE "call"
    /\ clicks' = clicks + 1
    /\ UNCHANGED <<arbVars, order_sequence, leg, results, returned, gateway_calls,
                   gateway_answers, in_flight, next_order_id, order_history,
                   reconVars, statusVars, thetaVars, marginVars, venueVars, sideVars>>

\* main.py:1902  "Execute Pair" of the theta (cash-futures) tab
ClickExecutePair ==
    /\ pc = "idle"
    /\ tpc = "idle"
    /\ clicks < MaxClicks
    /\ \E opp \in CashFuturesOpps, lots \in PyValues, map_lot \in LotSizeMapEntries :
          todo' = IF market_open
                  THEN << [kind |-> "cash_futures", opp |-> opp, lots |-> lots,
                           map_lot |-> map_lot] >>
                  ELSE << >>
    /\ pc' = IF todo' = << >> THEN "idle" ELSE "call"
    /\ clicks' = clicks + 1
    /\ UNCHANGED <<arbVars, order_sequence, leg, results, returned, gateway_calls,
                   gateway_answers, in_flight, next_order_id, order_history,
                   reconVars, statusVars, thetaVars, marginVars, venueVars, sideVars>>

\* The order_sequence of the batch at the head of todo.
BatchLegs(request) ==
    IF request.kind = "arbitrage"
    THEN ArbitrageLegs(request.opp, request.quantity)
    ELSE CashFuturesLegs(request.opp, request.lots, request.map_lot,
                         CashProduct, FuturesProduct)

\* place_arbitrage_orders / place_cash_futures_orders is entered: the legs
\* are built before anything is sent.
BeginBatch ==
    /\ pc = "call"
    /\ order_sequence' = BatchLegs(Head(todo))
    /\ leg' = 0
    /\ results' = << >>
    /\ pc' = "send"
    /\ UNCHANGED <<arbVars, todo, returned, gateway_calls, gateway_answers, in_flight,
                   next_order_id, order_history, clicks, reconVars, statusVars, thetaVars, marginVars, venueVars, sideVars>>

\* place_order is called for the next leg: kite.place_order goes out.
SendLeg ==
    /\ pc = "send"
    /\ leg < Len(order_sequence)
    /\ LET order == order_sequence[leg + 1]
       IN /\ gateway_calls' =
                Append(gateway_calls,
                       PlaceOrderCall(order.symbol, order.exchange,
                                      LegTransactionType(order), order.quantity,
                                      order.price, order.product, order.order_type))
          /\ in_flight' = in_flight \cup {[batch |-> Len(returned) + 1, leg |-> leg + 1]}
    /\ leg' = leg + 1
    /\ pc' = AfterSend
    /\ UNCHANGED <<arbVars, todo, order_sequence, results, returned, gateway_answers,
                   next_order_id, order_history, clicks, reconVars, statusVars, thetaVars, marginVars, venueVars, sideVars>>

\* The part of a gateway answer common to acceptance and rejection.
LegReturns(c, result) ==
    /\ in_flight' = in_flight \ {c}
    /\ gateway_answers' = Append(gateway_answers,
                                 [batch |-> c.batch, leg |-> c.leg,
                                  accepted |-> result.success])
    /\ results' = Append(results, OrderReport(order_sequence[c.leg], result))
    /\ gateway_calls' = gateway_calls \o GatewayCallsOnResult(results, result)
    /\ leg' = ResumeAfter(leg, Len(order_sequence), result)
    /\ pc' = "send"
    /\ UNCHANGED <<arbVars, todo, order_sequence, returned, order_history,
                   clicks, reconVars, statusVars, thetaVars, marginVars, venueVars, sideVars>>

\* kite.place_order returns an order id.
GatewayAccept ==
    \E c \in in_flight :
        /\ LegReturns(c, PlaceOrderSuccess(next_order_id))
        /\ next_order_id' = next_order_id + 1

\* kite.place_order raises.
GatewayReject ==
    \E c \in in_flight :
        /\ LegReturns(c, PlaceOrderFailure(<<"Order rejected">>))
        /\ UNCHANGED next_order_id

\* The loop is over: the results are returned to main.py, which stores one
\* order_history row per leg result and goes on with the next opportunity.
ReturnBatch ==
    /\ pc = "send"
    /\ leg >= Len(order_sequence)
    /\ in_flight = {}
    /\ returned' = Append(returned, results)
    /\ order_history' = order_history \o
          [k \in DOMAIN results |-> HistoryRow(Head(todo).opp.symbol, results[k])]
    /\ todo' = Tail(todo)
    /\ pc' = IF Tail(todo) = << >> THEN "idle" ELSE "call"
    /\ UNCHANGED <<arbVars, order_sequence, leg, results, gateway_calls,
                   gateway_answers, in_flight, next_order_id, clicks,
                   reconVars, statusVars, thetaVars, marginVars, venueVars, sideVars>>


\* The run of the script that handles a click is cut short between two
\* gateway calls or before the results are stored (the process stops, the
\* session is rerun): nothing of what follows in the handler is executed.
Abort ==
    /\ pc \in {"call", "send"}
    /\ in_flight = {}
    /\ pc' = "aborted"
    /\ UNCHANGED <<arbVars, todo, order_sequence, leg, results, returned, gateway_calls,
                   gateway_answers, in_flight, next_order_id, order_history, clicks,
                   reconVars, statusVars, thetaVars, marginVars, venueVars, sideVars>>

---------------------------------------------------------------------------
(* Order status reconciliation: v3-working-test.py                         *)

\* The exchange_timestamp field of an event: absent or empty, a string that
\* is not '%Y-%m-%d %H:%M:%S', or a well-formed instant t >= 0, counted in
\* seconds from '0001-01-01 00:00:00'.
TsMissing == [k |-> "missing", t |-> 0]
TsBad     == [k |-> "bad", t |-> 0]
TsAt(t)   == [k |-> "ok", t |-> t]

\* datetime.min: the instant '0001-01-01 00:00:00' itself.
DatetimeMin == 0

\* The mutated key: an unusable timestamp sorts as the newest instant.
get_timestamp_max(status_item) ==
    IF status_item.exchange_timestamp.k = "ok"
    THEN status_item.exchange_timestamp.t
    ELSE MaxTs + 2

\* check_order_status.get_timestamp: the sort key of an event.
get_timestamp(status_item) ==
    IF status_item.exchange_timestamp.k = "ok"
    THEN status_item.exchange_timestamp.t
    ELSE DatetimeMin

\* sorted(order_history, key=get_timestamp, reverse=False): stable, ascending.
RECURSIVE InsertByTimestamp(_, _)
InsertByTimestamp(sorted, e) ==
    IF sorted = << >> THEN <<e>>
    ELSE LET last == sorted[Len(sorted)]
         IN IF get_timestamp(last) <= get_timestamp(e)
            THEN Append(sorted, e)
            ELSE Append(InsertByTimestamp(SubSeq(sorted, 1, Len(sorted) - 1), e), last)

RECURSIVE SortedHistory(_)
SortedHistory(h) ==
    IF h = << >> THEN << >>
    ELSE InsertByTimestamp(SortedHistory(SubSeq(h, 1, Len(h) - 1)), h[Len(h)])

\* The mutated choice: the first event of the history as returned.
FirstReturned(h) == h[1]

\* latest_status = sorted_history[-1]
LatestStatus(h) == SortedHistory(h)[Len(h)]

\* A displayed status: the text, and the quantity printed inside it
\* ("COMPLETE (q filled)", "OPEN PENDING (q pending)"; 0 where none is printed).
Display(s, q) == [s |-> s, q |-> q]

NoStatus == Display("", 0)

\* The if/elif chain of check_order_status on the latest event.
DetailedStatus(latest) ==
    CASE latest.status = "COMPLETE" -> Display("COMPLETE", latest.filled_quantity)
      [] latest.status = "OPEN" /\ latest.pending_quantity > 0
            -> Display("OPEN PENDING", latest.pending_quantity)
      [] OTHER -> Display(latest.status, 0)

\* The mutated failure path: a failed query is reported as a rejection.
check_order_status_assuming(resp) ==
    IF resp.raised \/ resp.history = << >> THEN Some(Display("REJECTED", 0))
    ELSE Some(DetailedStatus(LatestStatus(resp.history)))

\* check_order_status: resp is the outcome of kite.order_history(order_id),
\* either raised or a list of events.  None when the query raised or the
\* list is empty.
check_order_status(resp) ==
    IF resp.raised THEN None
    ELSE IF resp.history = << >> THEN None
    ELSE Some(DetailedStatus(LatestStatus(resp.history)))

\* str.upper() on the values column D holds.
Upper(s) == IF s = "Order_Placed" THEN "ORDER_PLACED" ELSE s

\* update_order_statuses: the rows whose order is polled.
NeedsStatus(row) == Upper(row.action_status) = "ORDER_PLACED" /\ row.order_id # None

\* All orderings of a history: the gateway does not guarantee return order.
Orderings(h) ==
    {[i \in DOMAIN h |-> h[p[i]]] :
        p \in {q \in [DOMAIN h -> DOMAIN h] : \A i, j \in DOMAIN h : i # j => q[i] # q[j]}}

\* Outcomes of kite.order_history(order_id) for an order whose events are h.
GatewayResponses(h) ==
    {[raised |-> TRUE, history |-> << >>]}
    \cup {[raised |-> FALSE, history |-> o] : o \in Orderings(h)}

\* The query raised, or answered an empty history.
QueryFailed(resp) == resp.raised \/ resp.history = << >>

\* get_indian_timestamp() during cycle number c (the clock read as the cycle count).
CycleTimestamp(c) == c + 1

\* sheet.batch_update(status_updates) applied to the sheet.
ApplyStatusUpdates(sheet, updates) ==
    [i \in DOMAIN sheet |->
        LET mine == {k \in DOMAIN updates : updates[k].row = i}
        IN IF mine = {} THEN sheet[i]
           ELSE LET u == updates[CHOOSE k \in mine : \A m \in mine : m <= k]
                IN [sheet[i] EXCEPT !.order_status = u.status,
                                    !.status_timestamp = u.timestamp]]


---------------------------------------------------------------------------
(* The gateway's side of an order: its events, in the order they happened  *)

\* Statuses that may follow the events recorded so far.
NextStatuses(h) ==
    IF h = << >> THEN {"OPEN", "REJECTED"}
    ELSE IF h[Len(h)].status = "OPEN" THEN {"OPEN", "COMPLETE", "CANCELLED"}
    ELSE {}

\* An event of an order for one share.
Event(status, partial, ts) ==
    [status             |-> status,
     filled_quantity    |-> IF status = "COMPLETE" THEN 1 ELSE 0,
     pending_quantity   |-> IF status = "OPEN" /\ partial THEN 1 ELSE 0,
     exchange_timestamp |-> ts]

\* Timestamps of a new event: the second of the previous event (the clock
\* has a resolution of one second) or a later one.
NextTimestamps(h) ==
    IF h = << >> THEN {TsAt(1)}
    ELSE {TsAt(h[Len(h)].exchange_timestamp.t), TsAt(Len(h) + 1)}

\* The exchange records one more event for an order placed from the sheet.
GatewayEvent ==
    /\ \E o \in DOMAIN exchange_events :
          /\ \E i \in DOMAIN rows : rows[i].order_id = Some(o)
          /\ Len(exchange_events[o]) < MaxHist
          /\ \E st \in NextStatuses(exchange_events[o]),
                ts \in NextTimestamps(exchange_events[o]) :
                exchange_events' =
                    [exchange_events EXCEPT
                        ![o] = Append(@, Event(st, st = "OPEN" /\ @ # << >>, ts))]
    /\ UNCHANGED <<rows, rpc, ridx, snapshot, status_updates, updated_count,
                   error_count, polled, cycles, arbVars, orderVars, statusVars, thetaVars, marginVars, venueVars, sideVars>>

---------------------------------------------------------------------------
(* update_order_statuses, one step per gateway query *)

\* The worksheet cannot be opened or read: the outer except returns "Error".
ReconSheetError ==
    /\ rpc = "idle"
    /\ cycles < MaxCycles
    /\ cycles' = cycles + 1
    /\ UNCHANGED <<rows, exchange_events, rpc, ridx, snapshot, status_updates,
                   updated_count, error_count, polled, arbVars, orderVars, statusVars, thetaVars, marginVars, venueVars, sideVars>>

\* rows = sheet.get_all_values() holds the header only: "No data rows found".
ReconNoRows ==
    /\ rpc = "idle"
    /\ cycles < MaxCycles
    /\ rows = << >>
    /\ cycles' = cycles + 1
    /\ UNCHANGED <<rows, exchange_events, rpc, ridx, snapshot, status_updates,
                   updated_count, error_count, polled, arbVars, orderVars, statusVars, thetaVars, marginVars, venueVars, sideVars>>

\* rows = sheet.get_all_values(); the counters and the batch are initialised.
ReconStart ==
    /\ rpc = "idle"
    /\ cycles < MaxCycles
    /\ rows # << >>
    /\ snapshot' = rows
    /\ ridx' = 1
    /\ status_updates' = << >>
    /\ updated_count' = 0
    /\ error_count' = 0
    /\ polled' = {}
    /\ rpc' = "loop"
    /\ UNCHANGED <<rows, exchange_events, cycles, arbVars, orderVars, statusVars, thetaVars, marginVars, venueVars, sideVars>>

\* A row that is not marked Order_Placed, or carries no order id, is passed over.
ReconSkipRow ==
    /\ rpc = "loop"
    /\ ridx <= Len(snapshot)
    /\ ~NeedsStatus(snapshot[ridx])
    /\ ridx' = ridx + 1
    /\ UNCHANGED <<rows, exchange_events, rpc, snapshot, status_updates,
                   updated_count, error_count, polled, cycles,
                   arbVars, orderVars, statusVars, thetaVars, marginVars, venueVars, sideVars>>

\* status = check_order_status(kite, order_id) for the row at ridx.
ReconPollRow ==
    /\ rpc = "loop"
    /\ ridx <= Len(snapshot)
    /\ NeedsStatus(snapshot[ridx])
    /\ \E resp \in GatewayResponses(exchange_events[snapshot[ridx].order_id[1]]) :
          LET status == check_order_status(resp)
          IN IF status # None
             THEN /\ status_updates' =
                        Append(status_updates,
                               [row |-> ridx, status |-> status[1],
                                timestamp |-> CycleTimestamp(cycles)])
                  /\ updated_count' = updated_count + 1
                  /\ polled' = polled \cup {[row |-> ridx, failed |-> QueryFailed(resp)]}
                  /\ UNCHANGED error_count
             ELSE /\ error_count' = error_count + 1
                  /\ polled' = polled \cup {[row |-> ridx, failed |-> QueryFailed(resp)]}
                  /\ UNCHANGED <<status_updates, updated_count>>
    /\ ridx' = ridx + 1
    /\ UNCHANGED <<rows, exchange_events, rpc, snapshot, cycles,
                   arbVars, orderVars, statusVars, thetaVars, marginVars, venueVars, sideVars>>

\* update_order_statuses returns: its locals are gone.
ReconReturns ==
    /\ rpc' = "idle"
    /\ cycles' = cycles + 1
    /\ ridx' = 1
    /\ snapshot' = << >>
    /\ status_updates' = << >>
    /\ updated_count' = 0
    /\ error_count' = 0
    /\ polled' = {}

\* The loop is over and sheet.batch_update(status_updates) goes through (or
\* there is nothing to write).
ReconWrite ==
    /\ rpc = "loop"
    /\ ridx > Len(snapshot)
    /\ rows' = ApplyStatusUpdates(rows, status_updates)
    /\ ReconReturns
    /\ UNCHANGED <<exchange_events, arbVars, orderVars, statusVars, thetaVars, marginVars, venueVars, sideVars>>

\* The loop is over and sheet.batch_update raises: the error is printed and
\* no cell is written.
ReconWriteFails ==
    /\ rpc = "loop"
    /\ ridx > Len(snapshot)
    /\ status_updates # << >>
    /\ ReconReturns
    /\ UNCHANGED <<rows, exchange_events, arbVars, orderVars, statusVars, thetaVars, marginVars, venueVars, sideVars>>

---------------------------------------------------------------------------
(* check_order_status taken alone *)

\* One event of an arbitrary history.
AnyEvents ==
    {Event(st, partial, ts) :
        st \in {"OPEN", "COMPLETE"}, partial \in BOOLEAN,
        ts \in {TsMissing, TsBad} \cup {TsAt(t) : t \in 0..MaxTs}}

RECURSIVE SeqsUpTo(_, _)
SeqsUpTo(S, n) ==
    IF n = 0 THEN {<< >>}
    ELSE LET shorter == SeqsUpTo(S, n - 1)
         IN shorter \cup {Append(q, x) : q \in {r \in shorter : Len(r) = n - 1}, x \in S}

\* check_order_status(kite, order_id) where kite.order_history answers
\* kite_order_history.
CheckStatus ==
    /\ reported = None
    /\ latest_status' = Some(LatestStatus(kite_order_history))
    /\ reported' = check_order_status([raised |-> FALSE, history |-> kite_order_history])
    /\ UNCHANGED <<kite_order_history, arbVars, orderVars, reconVars, thetaVars, marginVars, venueVars, sideVars>>

---------------------------------------------------------------------------
(* Theta tab: calculations.py get_futures_contracts and                    *)
(* calculate_cash_futures_opportunities.  Dates are days counted from      *)
(* today, so that (expiry_date - current_date).days is the expiry itself.  *)

\* Futures prices are 1000 + 10 * k for k in -1..MaxPremium, against a cash
\* price of 1000.
MaxPremium == 2

\* Positive expiries are 10 * k days ahead for k in 1..MaxExpiry.
MaxExpiry == 1

\* x is a str
PyIsStr(x) == x.t \in {"intstr", "badstr", "emptystr"}

\* x < 1 and x > 0 raise TypeError on None and on a str
PyCompareRaises(x) == x.t = "none" \/ PyIsStr(x)

\* The number x in tenths.
PyTenths(x) == IF x.t = "float" THEN x.v ELSE 10 * x.v

\* x < 1
PyBelowOne(x) == PyTenths(x) < 10

\* x > 0
PyPositive(x) == PyTenths(x) > 0

\* LOT_SIZE_MAP.get(stock_key) on a table row: no key, or the stored value.
MapGet(map_row) == IF map_row = None THEN PyNone ELSE map_row[1]

\* LOT_SIZE_MAP.get(stock_key, default)
MapGetDefault(map_row, default) == IF map_row = None THEN default ELSE map_row[1]

\* The contract names of a stock: tradingsymbol of the instrument row and
\* format_futures_order_symbol's result.
TradingSymbol(stock) == stock \o "25NOVFUT"
OrderTradingSymbol(stock) == stock \o "25NOV"

\* The mutated resolution: the value is taken as the sources give it.
ContractLotSizeAsGiven(map_row, venue_lot) ==
    LET t == MapGet(map_row)
    IN IF t.t # "none" THEN t
       ELSE LET raw == IF venue_lot = None THEN PyIntV(1) ELSE venue_lot[1]
            IN IF PyIntRaises(raw) THEN PyIntV(1) ELSE PyIntV(PyIntValue(raw))

\* get_futures_contracts: the lot size of a contract row.
\*   lot_size_value = LOT_SIZE_MAP.get(stock_key)
\*   if lot_size_value is None: try int(fut_row.get('lot_size', 1)) except 1
\*   if lot_size_value < 1: lot_size_value = 1
ContractLotSize(map_row, venue_lot) ==
    LET t == MapGet(map_row)
        v == IF t.t # "none" THEN t
             ELSE LET raw == IF venue_lot = None THEN PyIntV(1) ELSE venue_lot[1]
                  IN IF PyIntRaises(raw) THEN PyIntV(1) ELSE PyIntV(PyIntValue(raw))
    IN IF PyBelowOne(v) THEN PyIntV(1) ELSE v

\* A row of the stock's frame is taken when its expiry parses, lies ahead and
\* the lot size comparison does not raise; otherwise the loop moves on.
RowTaken(row, map_row) ==
    /\ row.expiry # None
    /\ row.expiry[1] > 0
    /\ ~PyIsStr(MapGet(map_row))

ContractEntry(stock, row, map_row) ==
    [symbol              |-> stock,
     tradingsymbol       |-> TradingSymbol(stock),
     order_tradingsymbol |-> OrderTradingSymbol(stock),
     exchange            |-> "NFO",
     days_to_expiry      |-> row.expiry[1],
     lot_size            |-> ContractLotSize(map_row, row.lot_size)]

\* The body of the per-stock try: the first row taken, in the frame's order
\* (the frame is given as sort_values('expiry') leaves it).
StockContract(stock, frame, map_row) ==
    LET taken == {i \in DOMAIN frame : RowTaken(frame[i], map_row)}
    IN IF taken = {} THEN None
       ELSE LET first == CHOOSE i \in taken : \A j \in taken : i <= j
            IN Some(ContractEntry(stock, frame[first], map_row))

RECURSIVE CollectContracts(_, _, _)
CollectContracts(frames, stocks, table) ==
    IF stocks = << >> THEN << >>
    ELSE StockContract(Head(stocks), frames[Head(stocks)], table[Head(stocks)])
         \o CollectContracts(frames, Tail(stocks), table)

\* get_futures_contracts(kite, stock_symbols).  answer is None when
\* kite.instruments raised or answered nothing, else the frames per stock.
\* The dict is kept as the sequence of its values in insertion order.
get_futures_contracts(answer, stocks, table) ==
    IF answer = None THEN << >>
    ELSE CollectContracts(answer[1], stocks, table)

\* futures_data[stock], None when stock is not a key.
FuturesEntryOf(fdata, stock) ==
    LET idx == {i \in DOMAIN fdata : fdata[i].symbol = stock}
    IN IF idx = {} THEN None ELSE Some(fdata[CHOOSE i \in idx : TRUE])

\* list(futures_data.keys())
FuturesKeys(fdata) == [i \in DOMAIN fdata |-> fdata[i].symbol]

\* calculate_cash_futures_opportunities: the lot size of an entry.
\*   lot_size_value = LOT_SIZE_MAP.get(stock_key, fut_data.get('lot_size', 1))
\*   if lot_size_value is None or lot_size_value < 1: lot_size_value = 1
ThetaLotSize(map_row, fut_data) ==
    LET v == MapGetDefault(map_row, fut_data.lot_size)
    IN IF v.t = "none" \/ PyBelowOne(v) THEN PyIntV(1) ELSE v

\* premium_pct = (premium / cash_price) * 100
PremiumPct(cash_price, fut_price) ==
    FracReduce(Frac((fut_price - cash_price) * 100, cash_price))

\* The mutated annualisation: a 360-day year.
AnnualizedPremium360(premium_pct, days_to_expiry) ==
    IF days_to_expiry > 0
    THEN FracReduce(Frac(premium_pct.n * 360, premium_pct.d * days_to_expiry))
    ELSE Frac(0, 1)

\* annualized_premium = (premium_pct / days_to_expiry) * 365 if days_to_expiry > 0 else 0
AnnualizedPremium(premium_pct, days_to_expiry) ==
    IF days_to_expiry > 0
    THEN FracReduce(Frac(premium_pct.n * 365, premium_pct.d * days_to_expiry))
    ELSE Frac(0, 1)

\* opportunity_score = premium_pct * (days_to_expiry / 30) if days_to_expiry > 0 else 0
OpportunityScore(premium_pct, days_to_expiry) ==
    IF days_to_expiry > 0
    THEN FracReduce(Frac(premium_pct.n * days_to_expiry, premium_pct.d * 30))
    ELSE Frac(0, 1)

\* What the loop body does for one stock: "skip" (continue or a failed if),
\* "raise" (an exception leaves the loop) or "entry" (an append).
ThetaOutcome(stock, fdata, quotes, table) ==
    LET fd == FuturesEntryOf(fdata, stock)
    IN IF fd = None THEN "skip"
       ELSE IF quotes[stock] = None THEN "skip"
       ELSE LET q == quotes[stock][1]
            IN IF PyIsStr(MapGetDefault(table[stock], fd[1].lot_size)) THEN "raise"
               ELSE IF PyCompareRaises(q.cash) THEN "raise"
               ELSE IF ~PyPositive(q.cash) THEN "skip"
               ELSE IF PyCompareRaises(q.fut) THEN "raise"
               ELSE IF ~PyPositive(q.fut) THEN "skip"
               ELSE "entry"

\* The dict appended for a stock.
ThetaEntry(stock, fut_data, q, map_row) ==
    LET premium_pct == PremiumPct(q.cash.v, q.fut.v)
    IN [symbol             |-> stock,
        cash_price         |-> q.cash.v,
        futures_price      |-> q.fut.v,
        premium            |-> q.fut.v - q.cash.v,
        premium_pct        |-> premium_pct,
        annualized_premium |-> AnnualizedPremium(premium_pct, fut_data.days_to_expiry),
        days_to_expiry     |-> fut_data.days_to_expiry,
        futures_symbol     |-> fut_data.order_tradingsymbol,
        futures_symbol_api |-> fut_data.tradingsymbol,
        lot_size           |-> ThetaLotSize(map_row, fut_data),
        profit_per_share   |-> q.fut.v - q.cash.v,
        opportunity_score  |-> OpportunityScore(premium_pct, fut_data.days_to_expiry)]

\* The processing loop, up to its end or to the first exception.
RECURSIVE ThetaLoop(_, _, _, _, _)
ThetaLoop(stocks, fdata, quotes, table, acc) ==
    IF stocks = << >> THEN [opportunities |-> acc, raised |-> FALSE]
    ELSE LET stock == Head(stocks)
             outcome == ThetaOutcome(stock, fdata, quotes, table)
         IN CASE outcome = "raise" -> [opportunities |-> acc, raised |-> TRUE]
              [] outcome = "skip" -> ThetaLoop(Tail(stocks), fdata, quotes, table, acc)
              [] outcome = "entry" ->
                    ThetaLoop(Tail(stocks), fdata, quotes, table,
                              Append(acc, ThetaEntry(stock, FuturesEntryOf(fdata, stock)[1],
                                                     quotes[stock][1], table[stock])))

\* opportunities.sort(key=opportunity_score, reverse=True): stable.
RECURSIVE InsertByOpportunityScore(_, _)
InsertByOpportunityScore(sorted, e) ==
    IF sorted = << >> THEN <<e>>
    ELSE IF FracLT(Head(sorted).opportunity_score, e.opportunity_score)
         THEN <<e>> \o sorted
         ELSE <<Head(sorted)>> \o InsertByOpportunityScore(Tail(sorted), e)

RECURSIVE SortByOpportunityScoreDesc(_)
SortByOpportunityScoreDesc(s) ==
    IF s = << >> THEN << >>
    ELSE InsertByOpportunityScore(SortByOpportunityScoreDesc(SubSeq(s, 1, Len(s) - 1)),
                                  s[Len(s)])

\* calculate_cash_futures_opportunities(kite, stock_symbols, futures_data).
\* answer is None when kite.quote raised.  The sort is the last statement of
\* the try block: an exception in the loop goes to the except clause and the
\* list is returned as the loop left it.
calculate_cash_futures_opportunities(stocks, fdata, answer, table) ==
    IF \A i \in DOMAIN stocks : FuturesEntryOf(fdata, stocks[i]) = None THEN << >>
    ELSE IF answer = None THEN << >>
    ELSE LET r == ThetaLoop(stocks, fdata, answer[1], table, << >>)
         IN IF r.raised THEN r.opportunities
            ELSE SortByOpportunityScoreDesc(r.opportunities)

\* main.py:1721  futures_data = get_futures_contracts(kite, popular_stocks)
ResolveContracts ==
    /\ tpc = "scan"
    /\ futures_data' = get_futures_contracts(instruments, stock_symbols, lot_size_map)
    /\ tpc' = "resolved"
    /\ UNCHANGED <<stock_symbols, lot_size_map, instruments, theta_quotes, opportunities,
                   arbVars, orderVars, reconVars, statusVars, marginVars, venueVars, sideVars>>

\* main.py:1723-1727  if futures_data: opportunities =
\*     calculate_cash_futures_opportunities(kite, list(futures_data.keys()), futures_data)
EvaluateTheta ==
    /\ tpc = "resolved"
    /\ opportunities' =
          IF futures_data = << >> THEN << >>
          ELSE calculate_cash_futures_opportunities(FuturesKeys(futures_data), futures_data,
                                                    theta_quotes, lot_size_map)
    /\ tpc' = "listed"
    /\ UNCHANGED <<stock_symbols, lot_size_map, instruments, futures_data, theta_quotes,
                   arbVars, orderVars, reconVars, statusVars, marginVars, venueVars, sideVars>>

\* calculate_cash_futures_opportunities called with any symbol list and any
\* mapping.
CallEvaluator ==
    /\ tpc = "called"
    /\ opportunities' = calculate_cash_futures_opportunities(stock_symbols, futures_data,
                                                             theta_quotes, lot_size_map)
    /\ tpc' = "returned"
    /\ UNCHANGED <<stock_symbols, lot_size_map, instruments, futures_data, theta_quotes,
                   arbVars, orderVars, reconVars, statusVars, marginVars, venueVars, sideVars>>

\* main.py:1737-1741, 1902-1946  Execute Pair on an entry the filter lets
\* through (min_premium_pct >= 0.0, min_days_expiry >= 1): the entry itself
\* is handed to place_cash_futures_orders.
ClickExecuteListed ==
    /\ tpc = "listed"
    /\ pc = "idle"
    /\ clicks < MaxClicks
    /\ \E i \in DOMAIN opportunities, lots \in PyValues :
          LET e == opportunities[i]
          IN /\ e.premium_pct.n >= 0
             /\ e.days_to_expiry >= 1
             /\ todo' = IF market_open
                        THEN << [kind |-> "cash_futures",
                                 opp |-> [symbol |-> e.symbol,
                                          futures_symbol |-> e.futures_symbol,
                                          futures_symbol_api |-> e.futures_symbol_api,
                                          lot_size |-> e.lot_size],
                                 lots |-> lots,
                                 map_lot |-> MapGet(lot_size_map[e.symbol])] >>
                        ELSE << >>
    /\ pc' = IF todo' = << >> THEN "idle" ELSE "call"
    /\ clicks' = clicks + 1
    /\ UNCHANGED <<arbVars, order_sequence, leg, results, returned, gateway_calls,
                   gateway_answers, in_flight, next_order_id, order_history,
                   reconVars, statusVars, thetaVars, marginVars, venueVars, sideVars>>

---------------------------------------------------------------------------
(* Margin estimate, taken alone *)

\* A call of calculate_margin_required returns.
CallMarginRequired ==
    /\ margin_call # None
    /\ margin_required = None
    /\ margin_required' = Some(calculate_margin_required(margin_call[1].price,
                                                         margin_call[1].quantity,
                                                         margin_call[1].product))
    /\ UNCHANGED <<market_open, kite_margins, margin_call, arbVars, orderVars,
                   reconVars, statusVars, thetaVars, venueVars, sideVars>>

---------------------------------------------------------------------------
(* Venue auto-detection: auto_detect_exchange (place_order_logics.py) and  *)
(* its copies at the head of place_order_with_kite and place_order         *)
(* (v3-working-test.py).  A symbol is the sequence of its characters.      *)

\* Longest symbol, in chunks of VenueChunks.
MaxChunks == 3

\* c.isdigit(), for the characters of the model
IsDigit(c) == c \in {"0", "1", "2", "3", "4", "5", "6", "7", "8", "9"}

\* sum(1 for c in symbol if c.isdigit())
CountDigits(symbol) == Cardinality({i \in DOMAIN symbol : IsDigit(symbol[i])})

\* symbol.upper(), for the characters of the model
UpperChar(c) ==
    CASE c = "i" -> "I"
      [] c = "n" -> "N"
      [] c = "r" -> "R"
      [] OTHER -> c

UpperChars(symbol) == [i \in DOMAIN symbol |-> UpperChar(symbol[i])]

\* token in text
Contains(text, token) ==
    \E i \in 0..(Len(text) - Len(token)) : SubSeq(text, i + 1, i + Len(token)) = token

USDINR == <<"U", "S", "D", "I", "N", "R">>
EURINR == <<"E", "U", "R", "I", "N", "R">>
GBPINR == <<"G", "B", "P", "I", "N", "R">>
JPYINR == <<"J", "P", "Y", "I", "N", "R">>
INR    == <<"I", "N", "R">>

\* ['USDINR', 'EURINR', 'GBPINR', 'JPYINR', 'INR']
CurrencyTokens == {USDINR, EURINR, GBPINR, JPYINR, INR}

\* The mutated copy: the tokens are looked for in the symbol as typed.
auto_detect_exchange_as_typed(symbol) ==
    IF CountDigits(symbol) >= 2
    THEN IF \E curr \in CurrencyTokens : Contains(symbol, curr) THEN "CDS" ELSE "NFO"
    ELSE "NSE"

\* place_order_logics.py:56-61
auto_detect_exchange(symbol) ==
    IF CountDigits(symbol) >= 2
    THEN IF \E curr \in CurrencyTokens : Contains(UpperChars(symbol), curr)
         THEN "CDS"
         ELSE "NFO"
    ELSE "NSE"

\* v3-working-test.py:118-130  the exchange place_order_with_kite settles on
place_order_with_kite_exchange(symbol) ==
    IF CountDigits(symbol) >= 2
    THEN (IF \E currency \in CurrencyTokens : Contains(UpperChars(symbol), currency)
          THEN "CDS"
          ELSE "NFO")
    ELSE "NSE"

\* v3-working-test.py:471-483  the exchange place_order settles on
place_order_exchange(symbol) ==
    IF CountDigits(symbol) >= 2
    THEN (IF \E currency \in CurrencyTokens : Contains(UpperChars(symbol), currency)
          THEN "CDS"
          ELSE "NFO")
    ELSE "NSE"

\* The three copies are run on the same symbol.
DetectExchange ==
    /\ detected = None
    /\ detected' = Some([auto_detect_exchange  |-> auto_detect_exchange(venue_symbol),
                         place_order_with_kite |-> place_order_with_kite_exchange(venue_symbol),
                         place_order           |-> place_order_exchange(venue_symbol)])
    /\ UNCHANGED <<venue_symbol, arbVars, orderVars, reconVars, statusVars, thetaVars,
                   marginVars, sideVars>>

---------------------------------------------------------------------------
(* place_order taken alone (order_manager.py:75-110) *)

\* Longest number written in an error text, in characters.
MaxDigits == 3

CallPlaceOrder ==
    /\ place_answer # None
    /\ place_result = None
    /\ place_result' = Some(place_order(place_answer[1]))
    /\ UNCHANGED <<place_answer, arbVars, orderVars, reconVars, statusVars, thetaVars,
                   marginVars, venueVars, logVars, sheetVars, clockVars>>

---------------------------------------------------------------------------
(* Initial states and specifications *)

ArbIdle ==
    /\ live_prices_data = << >>
    /\ min_profit_threshold = 0
    /\ arbitrage_data = << >>
    /\ evaluated = FALSE

OrderIdle ==
    /\ pc = "idle"
    /\ todo = << >>
    /\ order_sequence = << >>
    /\ leg = 0
    /\ results = << >>
    /\ returned = << >>
    /\ gateway_calls = << >>
    /\ gateway_answers = << >>
    /\ in_flight = {}
    /\ next_order_id = 1
    /\ order_history = << >>
    /\ clicks = 0

ReconIdle ==
    /\ rows = << >>
    /\ exchange_events = << >>
    /\ rpc = "idle"
    /\ ridx = 1
    /\ snapshot = << >>
    /\ status_updates = << >>
    /\ updated_count = 0
    /\ error_count = 0
    /\ polled = {}
    /\ cycles = 0

StatusIdle ==
    /\ kite_order_history = << >>
    /\ latest_status = None
    /\ reported = None

ThetaIdle ==
    /\ stock_symbols = << >>
    /\ lot_size_map = << >>
    /\ instruments = << >>
    /\ futures_data = << >>
    /\ theta_quotes = << >>
    /\ opportunities = << >>
    /\ tpc = "idle"

\* The market is open and the account's margin cannot be read.
MarginIdle ==
    /\ market_open = TRUE
    /\ kite_margins = None
    /\ margin_call = None
    /\ margin_required = None

VenueIdle ==
    /\ venue_symbol = << >>
    /\ detected = None

PlaceIdle ==
    /\ place_answer = None
    /\ place_result = None

LogIdle ==
    /\ arbitrage_spreads = << >>
    /\ cash_futures_spreads = << >>
    /\ store_calls = << >>

SheetIdle ==
    /\ actions_sheet = << >>
    /\ sheet_orders = << >>
    /\ place_cycles = 0

\* Ten in the morning.
ClockIdle == current_time = 10 * 60

SideIdle == PlaceIdle /\ LogIdle /\ SheetIdle /\ ClockIdle

\* ---- the evaluator alone: any quote list, any threshold ----
InitArb ==
    /\ live_prices_data \in SeqsUpTo(Quotes, MaxQuotes)
    /\ min_profit_threshold \in Thresholds
    /\ arbitrage_data = << >>
    /\ evaluated = FALSE
    /\ OrderIdle /\ ReconIdle /\ StatusIdle /\ ThetaIdle /\ MarginIdle /\ VenueIdle /\ SideIdle

NextArb == Evaluate

SpecArb == InitArb /\ [][NextArb]_vars

\* ---- the evaluator alone, on books with gaps: a symbol quoted at one venue
\* only or more than once, dead (0) and negative prices ----
MaxBook == 3

BookQuotes == [symbol : Symbols, exchange : {"NSE", "BSE"},
               last_price : {-1, 0, BasePrice, BasePrice + 1}, volume : {1}]

InitBook ==
    /\ live_prices_data \in SeqsUpTo(BookQuotes, MaxBook)
    /\ min_profit_threshold \in {0, 5}
    /\ arbitrage_data = << >>
    /\ evaluated = FALSE
    /\ OrderIdle /\ ReconIdle /\ StatusIdle /\ ThetaIdle /\ MarginIdle /\ VenueIdle /\ SideIdle

NextBook == Evaluate

SpecBook == InitBook /\ [][NextBook]_vars

\* ---- the dashboard: quotes of both venues, evaluation, execute clicks ----
\* main.py evaluates with min_profit_threshold = 0.0.
DashboardQuotes ==
    {<< [symbol |-> "A", exchange |-> "NSE", last_price |-> a, volume |-> 1],
        [symbol |-> "A", exchange |-> "BSE", last_price |-> b, volume |-> 1],
        [symbol |-> "B", exchange |-> "BSE", last_price |-> c, volume |-> 1],
        [symbol |-> "B", exchange |-> "NSE", last_price |-> d, volume |-> 1] >> :
        a \in Prices \ {0}, b \in Prices \ {0}, c \in Prices, d \in Prices \ {0}}

Init ==
    /\ live_prices_data \in DashboardQuotes
    /\ min_profit_threshold = 0
    /\ arbitrage_data = << >>
    /\ evaluated = FALSE
    /\ OrderIdle /\ ReconIdle /\ StatusIdle /\ ThetaIdle /\ MarginIdle /\ VenueIdle /\ SideIdle

Next ==
    \/ Evaluate
    \/ ClickExecute
    \/ ClickExecuteAll
    \/ BeginBatch
    \/ SendLeg
    \/ GatewayAccept
    \/ GatewayReject
    \/ ReturnBatch

Spec == Init /\ [][Next]_vars

\* ---- the theta tab: one cash-futures pair ----
InitPair == ArbIdle /\ OrderIdle /\ ReconIdle /\ StatusIdle /\ ThetaIdle /\ MarginIdle /\ VenueIdle /\ SideIdle

NextPair ==
    \/ ClickExecutePair
    \/ BeginBatch
    \/ SendLeg
    \/ GatewayAccept
    \/ GatewayReject
    \/ ReturnBatch

SpecPair == InitPair /\ [][NextPair]_vars

\* ---- the dashboard, with runs that are cut short ----
NextAbort ==
    \/ Next
    \/ Abort

SpecAbort == Init /\ [][NextAbort]_vars

\* ---- reconciliation of a sheet whose rows were placed earlier ----
\* Row i, once placed, carries order id i; column H is empty until a poll
\* writes it.
PlacedRow(i) ==
    [action_status |-> "Order_Placed", order_id |-> Some(i),
     order_status |-> NoStatus, status_timestamp |-> 0]

PendingRow ==
    [action_status |-> "", order_id |-> None,
     order_status |-> NoStatus, status_timestamp |-> 0]

\* Order ids of the rows placed earlier.
OrderIds == {1, 2}

\* The data rows of the Actions sheet when reconciliation starts.
Sheets ==
    { << >>,
      << PendingRow >>,
      << PlacedRow(1) >>,
      << PlacedRow(1), PlacedRow(2) >>,
      << PlacedRow(2), PendingRow, PlacedRow(1) >> }

InitRecon ==
    /\ rows \in Sheets
    /\ exchange_events = [i \in OrderIds |-> << >>]
    /\ rpc = "idle"
    /\ ridx = 1
    /\ snapshot = << >>
    /\ status_updates = << >>
    /\ updated_count = 0
    /\ error_count = 0
    /\ polled = {}
    /\ cycles = 0
    /\ ArbIdle /\ OrderIdle /\ StatusIdle /\ ThetaIdle /\ MarginIdle /\ VenueIdle /\ SideIdle

NextRecon ==
    \/ GatewayEvent
    \/ ReconSheetError
    \/ ReconNoRows
    \/ ReconStart
    \/ ReconSkipRow
    \/ ReconPollRow
    \/ ReconWrite
    \/ ReconWriteFails

SpecRecon == InitRecon /\ [][NextRecon]_vars

\* ---- check_order_status alone: any history, in any order ----
InitStatus ==
    /\ kite_order_history \in SeqsUpTo(AnyEvents, MaxEvents) \ {<< >>}
    /\ latest_status = None
    /\ reported = None
    /\ ArbIdle /\ OrderIdle /\ ReconIdle /\ ThetaIdle /\ MarginIdle /\ VenueIdle /\ SideIdle

NextStatus == CheckStatus

SpecStatus == InitStatus /\ [][NextStatus]_vars

\* ---- the cash-futures evaluator alone: any symbol list, mapping and quotes ----
ThetaStocks == <<"A", "B", "C">>

FuturesPrices == {1000 + 10 * k : k \in -1..MaxPremium}

ExpiryDays == {-1, 0} \cup {10 * k : k \in 1..MaxExpiry}

\* A futures_data value with the given days_to_expiry and lot_size.
FuturesDatum(stock, days, lot) ==
    [symbol              |-> stock,
     tradingsymbol       |-> TradingSymbol(stock),
     order_tradingsymbol |-> OrderTradingSymbol(stock),
     exchange            |-> "NFO",
     days_to_expiry      |-> days,
     lot_size            |-> lot]

\* What the caller and the gateway hold for one stock: whether it is a key of
\* futures_data (with which days_to_expiry), and the last_price fields of its
\* two quotes (None: a symbol missing from the answer; PyNone: a null field).
ThetaProfiles ==
    { [days |-> None, quote |-> Some([cash |-> PyIntV(1000), fut |-> PyIntV(1010)])],
      [days |-> Some(10), quote |-> None],
      [days |-> Some(10), quote |-> Some([cash |-> PyNone, fut |-> PyIntV(1010)])],
      [days |-> Some(10), quote |-> Some([cash |-> PyIntV(0), fut |-> PyIntV(1010)])] }
    \cup { [days |-> Some(d), quote |-> Some([cash |-> PyIntV(1000), fut |-> PyIntV(f)])] :
             d \in ExpiryDays, f \in FuturesPrices }

RECURSIVE ProfiledFuturesData(_, _)
ProfiledFuturesData(stocks, prof) ==
    IF stocks = << >> THEN << >>
    ELSE (IF prof[Head(stocks)].days = None THEN << >>
          ELSE << FuturesDatum(Head(stocks), prof[Head(stocks)].days[1], PyIntV(2)) >>)
         \o ProfiledFuturesData(Tail(stocks), prof)

InitTheta ==
    /\ \E prof \in [Range(ThetaStocks) -> ThetaProfiles] :
          /\ futures_data = ProfiledFuturesData(ThetaStocks, prof)
          /\ theta_quotes \in {None, Some([s \in Range(ThetaStocks) |-> prof[s].quote])}
    /\ stock_symbols = ThetaStocks
    /\ lot_size_map = [s \in Range(ThetaStocks) |-> None]
    /\ instruments = << >>
    /\ opportunities = << >>
    /\ tpc = "called"
    /\ ArbIdle /\ OrderIdle /\ ReconIdle /\ StatusIdle /\ MarginIdle /\ VenueIdle /\ SideIdle

NextTheta == CallEvaluator

SpecTheta == InitTheta /\ [][NextTheta]_vars

\* ---- the theta tab for one stock: scan, listing, Execute Pair ----
LotStocks == <<"A">>

\* The lot_size field of an instrument row: missing, or any value.
VenueLots == {None} \cup {Some(v) : v \in PyValues}

\* LOT_SIZE_MAP rows: no key, or a stored value.
LotSizeMapRows == {None} \cup {Some(v) : v \in LotSizeMapEntries}

FutRow(expiry, lot) == [expiry |-> expiry, lot_size |-> lot]

\* The stock's frame: one row of any expiry (unparseable, today, ahead) and
\* lot size, or a row that is passed over followed by a row that is ahead.
LotFrames ==
    { << FutRow(e, v) >> : e \in {None, Some(0), Some(10)}, v \in VenueLots }
    \cup { << FutRow(e, Some(PyIntV(2))), FutRow(Some(10), Some(PyIntV(0))) >> :
             e \in {None, Some(0)} }

\* Either a scan of the tab is starting, or place_cash_futures_orders is
\* about to be called with an opportunity that no scan produced.
InitLots ==
    /\ \/ /\ stock_symbols = LotStocks
          /\ lot_size_map \in [Range(LotStocks) -> LotSizeMapRows]
          /\ instruments \in {None} \cup {Some(f) : f \in [Range(LotStocks) -> LotFrames]}
          /\ futures_data = << >>
          /\ theta_quotes = Some([s \in Range(LotStocks) |->
                                    Some([cash |-> PyIntV(1000), fut |-> PyIntV(1010)])])
          /\ opportunities = << >>
          /\ tpc = "scan"
       \/ ThetaIdle
    /\ ArbIdle /\ OrderIdle /\ ReconIdle /\ StatusIdle /\ MarginIdle /\ VenueIdle /\ SideIdle

NextLots ==
    \/ ResolveContracts
    \/ EvaluateTheta
    \/ ClickExecuteListed
    \/ ClickExecutePair
    \/ BeginBatch
    \/ SendLeg
    \/ GatewayAccept
    \/ GatewayReject
    \/ ReturnBatch

SpecLots == InitLots /\ [][NextLots]_vars

\* ---- calculate_margin_required alone: any price, quantity and product ----
\* Product strings: the three the dashboard offers and strings it does not.
MarginProducts == {"CNC", "MIS", "NRML", "BO", "cnc", ""}

InitMarginCalc ==
    /\ margin_call \in {Some([price |-> p, quantity |-> q, product |-> product]) :
                           p \in Prices, q \in 0..MaxQty, product \in MarginProducts}
    /\ margin_required = None
    /\ market_open = TRUE
    /\ kite_margins = None
    /\ ArbIdle /\ OrderIdle /\ ReconIdle /\ StatusIdle /\ ThetaIdle /\ VenueIdle /\ SideIdle

NextMarginCalc == CallMarginRequired

SpecMarginCalc == InitMarginCalc /\ [][NextMarginCalc]_vars

\* ---- the execute-all panel: margin read or not, market open or not ----
\* Stock B is profitable whatever A's quotes are.
MarginQuotes ==
    {<< [symbol |-> "A", exchange |-> "NSE", last_price |-> a, volume |-> 1],
        [symbol |-> "A", exchange |-> "BSE", last_price |-> b, volume |-> 1],
        [symbol |-> "B", exchange |-> "BSE", last_price |-> BasePrice, volume |-> 1],
        [symbol |-> "B", exchange |-> "NSE", last_price |-> BasePrice + MaxTick,
         volume |-> 1] >> :
        a \in Prices \ {0}, b \in Prices \ {0}}

\* kite.margins(): raised, or a cash figure of nothing, little or plenty.
MarginAnswers == {None, Some(0), Some(1000), Some(100000)}

InitMargin ==
    /\ live_prices_data \in MarginQuotes
    /\ min_profit_threshold = 0
    /\ arbitrage_data = << >>
    /\ evaluated = FALSE
    /\ market_open \in BOOLEAN
    /\ kite_margins \in MarginAnswers
    /\ margin_call = None
    /\ margin_required = None
    /\ OrderIdle /\ ReconIdle /\ StatusIdle /\ ThetaIdle /\ VenueIdle /\ SideIdle

NextMargin ==
    \/ Evaluate
    \/ ClickExecuteAll
    \/ BeginBatch
    \/ SendLeg
    \/ GatewayAccept
    \/ GatewayReject
    \/ ReturnBatch

SpecMargin == InitMargin /\ [][NextMargin]_vars

\* ---- venue auto-detection alone: any symbol ----
\* Pieces symbols are made of: the tokens, parts of a token, a token in lower
\* case, a name without token, digits.
VenueChunks ==
    {USDINR, EURINR, GBPINR, JPYINR, INR, <<"I", "N">>, <<"R">>, <<"i", "n", "r">>,
     <<"N", "I", "F", "T", "Y">>, <<"2">>, <<"5">>}

RECURSIVE Flatten(_)
Flatten(chunks) == IF chunks = << >> THEN << >> ELSE Head(chunks) \o Flatten(Tail(chunks))

InitVenue ==
    /\ venue_symbol \in {Flatten(chunks) : chunks \in SeqsUpTo(VenueChunks, MaxChunks)}
    /\ detected = None
    /\ ArbIdle /\ OrderIdle /\ ReconIdle /\ StatusIdle /\ ThetaIdle /\ MarginIdle /\ SideIdle

NextVenue == DetectExchange

SpecVenue == InitVenue /\ [][NextVenue]_vars

\* ---- place_order alone: any order id, any error text ----
\* Numbers as an error text may write them, well formed or not.
WrittenNumbers == SeqsUpTo({"1", "5", "."}, MaxDigits)

\* What follows "Insufficient funds. ": nothing, the phrase alone, or the
\* phrase with a number.
MarginClauses(phrase) ==
    {<< >>, <<phrase>>} \cup {<<phrase, Is>> \o n : n \in WrittenNumbers}

\* The texts kite.place_order raises with: a margin shortfall, whose sentence
\* ends with a full stop or runs on, and anything else.
ErrorTexts ==
    {Flatten(<< <<"Insufficient funds. ">>, r, <<" but ">>, a, t >>) :
        r \in MarginClauses(RequiredMargin), a \in MarginClauses(AvailableMargin),
        t \in {<< >>, <<".", " Check the orderbook for open orders.">>}}

PlaceAnswers ==
    {[raised |-> FALSE, order_id |-> id, error_msg |-> << >>] : id \in 1..2}
    \cup {[raised |-> TRUE, order_id |-> 0, error_msg |-> m] : m \in ErrorTexts}

InitPlace ==
    /\ place_answer \in {Some(a) : a \in PlaceAnswers}
    /\ place_result = None
    /\ ArbIdle /\ OrderIdle /\ ReconIdle /\ StatusIdle /\ ThetaIdle /\ MarginIdle /\ VenueIdle
    /\ LogIdle /\ SheetIdle /\ ClockIdle

NextPlace == CallPlaceOrder

SpecPlace == InitPlace /\ [][NextPlace]_vars

\* ---- both execute handlers: the spreads tab on a book of two symbols while
\* the theta tab lists nothing, or the theta tab's pair on any opportunity
\* while the spreads tab shows no quote ----
DeskTabs ==
    \/ /\ live_prices_data \in
             {<< [symbol |-> "A", exchange |-> "NSE", last_price |-> a, volume |-> 1],
                 [symbol |-> "A", exchange |-> "BSE", last_price |-> BasePrice, volume |-> 1],
                 [symbol |-> "B", exchange |-> "NSE", last_price |-> BasePrice, volume |-> 1],
                 [symbol |-> "B", exchange |-> "BSE", last_price |-> b, volume |-> 1] >> :
                 a \in {BasePrice, BasePrice + 2}, b \in {BasePrice, BasePrice + 2}}
       /\ min_profit_threshold = 0
       /\ arbitrage_data = << >>
       /\ evaluated = FALSE
       /\ stock_symbols = << >> /\ lot_size_map = << >> /\ instruments = << >>
       /\ futures_data = << >> /\ theta_quotes = << >> /\ opportunities = << >>
       /\ tpc = "listed"
    \/ /\ live_prices_data = << >>
       /\ min_profit_threshold = 0
       /\ arbitrage_data = << >>
       /\ evaluated = TRUE
       /\ ThetaIdle

InitDesk ==
    /\ DeskTabs
    /\ OrderIdle /\ ReconIdle /\ StatusIdle /\ MarginIdle /\ VenueIdle /\ SideIdle

NextDesk == Next \/ ClickExecutePair

SpecDesk == InitDesk /\ [][NextDesk]_vars

\* ---- both execute handlers at any time of the day: the sidebar has read
\* the clock at the start of the script run ----
SessionTimes ==
    {8 * 60 + 59, 9 * 60, 9 * 60 + 14, 9 * 60 + 15, 15 * 60 + 30, 15 * 60 + 31,
     16 * 60 + 59, 17 * 60}

InitHours ==
    /\ DeskTabs
    /\ current_time \in SessionTimes
    /\ market_open = MarketOpenAt(current_time)
    /\ kite_margins = None /\ margin_call = None /\ margin_required = None
    /\ OrderIdle /\ ReconIdle /\ StatusIdle /\ VenueIdle
    /\ PlaceIdle /\ LogIdle /\ SheetIdle

NextHours == NextDesk

SpecHours == InitHours /\ [][NextHours]_vars

\* ---- the two evaluators on inputs with equal scores ----
\* Both venues of two symbols, quoted in any order, at prices one tick apart
\* or equal, traded or not.
ShuffledBooks ==
    UNION {Orderings(<< [symbol |-> "A", exchange |-> "NSE", last_price |-> a, volume |-> v],
                        [symbol |-> "A", exchange |-> "BSE", last_price |-> BasePrice, volume |-> v],
                        [symbol |-> "B", exchange |-> "NSE", last_price |-> b, volume |-> w],
                        [symbol |-> "B", exchange |-> "BSE", last_price |-> c, volume |-> w] >>) :
              a \in {BasePrice, BasePrice + 1}, b \in {BasePrice, BasePrice + 1},
              c \in {BasePrice, BasePrice + 1}, v \in 0..1, w \in 0..1}

InitTies ==
    \/ /\ live_prices_data \in ShuffledBooks
       /\ min_profit_threshold = 0
       /\ arbitrage_data = << >>
       /\ evaluated = FALSE
       /\ OrderIdle /\ ReconIdle /\ StatusIdle /\ ThetaIdle /\ MarginIdle /\ VenueIdle /\ SideIdle
    \/ InitTheta

NextTies == Evaluate \/ CallEvaluator

SpecTies == InitTies /\ [][NextTies]_vars

---------------------------------------------------------------------------
(* Durable log: store_arbitrage_spread, store_cash_futures_spread and      *)
(* store_order_history (database.py).  A table is the sequence of its rows *)
(* in insertion order; each call opens its own connection, whose inserts   *)
(* reach the table at commit.                                              *)

\* Store calls of one run.
MaxStores == 2

\* The tuple store_arbitrage_spread binds to its INSERT.
ArbitrageSpreadRow(opp, timestamp) ==
    [symbol               |-> opp.symbol,
     timestamp            |-> timestamp,
     nse_price            |-> opp.nse_price,
     bse_price            |-> opp.bse_price,
     price_difference     |-> opp.price_difference,
     price_difference_pct |-> opp.price_difference_pct,
     nse_volume           |-> opp.nse_volume,
     bse_volume           |-> opp.bse_volume,
     is_profitable        |-> IF opp.is_profitable THEN 1 ELSE 0]

\* The tuple store_cash_futures_spread binds to its INSERT.
CashFuturesSpreadRow(opp, timestamp) ==
    [symbol             |-> opp.symbol,
     timestamp          |-> timestamp,
     cash_price         |-> opp.cash_price,
     futures_price      |-> opp.futures_price,
     premium            |-> opp.premium,
     premium_pct        |-> opp.premium_pct,
     annualized_premium |-> opp.annualized_premium,
     days_to_expiry     |-> opp.days_to_expiry,
     opportunity_score  |-> opp.opportunity_score]

\* The rows the connection holds when the statement numbered fail_at raises
\* (the inserts are numbered from 1, the commit follows the last insert).
Inserted(new_rows, fail_at) == SubSeq(new_rows, 1, fail_at - 1)

\* The mutated commit: a row whose opportunity is already stored is dropped.
CommitWithoutDuplicates(table, inserted) ==
    LET Stored(r) == \E i \in DOMAIN table : [table[i] EXCEPT !.timestamp = 0]
                                              = [r EXCEPT !.timestamp = 0]
        Fresh(r) == ~Stored(r)
    IN table \o SelectSeq(inserted, Fresh)

\* conn.commit()
Commit(table, inserted) == table \o inserted

\* The mutated rollback: what was inserted stays.
RollbackKeepsInserted(table, inserted) == table \o inserted

\* conn.rollback()
Rollback(table, inserted) == table

\* try: the inserts and the commit; except Exception: rollback.
\* fail_at = 0: no statement raises.
StoreRows(table, new_rows, fail_at) ==
    IF fail_at = 0 THEN Commit(table, new_rows)
    ELSE Rollback(table, Inserted(new_rows, fail_at))

\* How a store call ends for its caller: the except clause catches every
\* Exception of the try and does not raise again.
StoreOutcome(fail_at) == "returned"

StoreCall(fn, batch, fail_at) ==
    [fn |-> fn, batch |-> batch, fail_at |-> fail_at, outcome |-> StoreOutcome(fail_at)]

\* datetime.now() of a call: calls are told apart by their time.
StoreTimestamp == Len(store_calls) + 1

\* Results of the spread evaluator handed to store_arbitrage_spread.
LogArbitrageData ==
    {calculate_arbitrage_opportunities(
        << [symbol |-> "A", exchange |-> "NSE", last_price |-> BasePrice, volume |-> 1],
           [symbol |-> "A", exchange |-> "BSE", last_price |-> a, volume |-> 1],
           [symbol |-> "B", exchange |-> "NSE", last_price |-> BasePrice, volume |-> 1],
           [symbol |-> "B", exchange |-> "BSE", last_price |-> b, volume |-> 1] >>, 0) :
        a \in {0, BasePrice + 1}, b \in {0, BasePrice + 1}}

\* Results of the cash-futures evaluator handed to store_cash_futures_spread.
LogOpportunities ==
    {calculate_cash_futures_opportunities(
        <<"A", "B">>,
        << FuturesDatum("A", 10, PyIntV(2)), FuturesDatum("B", 10, PyIntV(2)) >>,
        Some([s \in {"A", "B"} |->
                IF s = "A" THEN Some([cash |-> PyIntV(1000), fut |-> PyIntV(1010)])
                ELSE q]),
        [s \in {"A", "B"} |-> None]) :
        q \in {None, Some([cash |-> PyIntV(1000), fut |-> PyIntV(1020)])}}
    \cup {<< >>}

\* The dicts main.py hands to store_order_history.
LogOrderData ==
    {HistoryRow("A", OrderReport([order_type |-> "LIMIT", action |-> "BUY",
                                  exchange |-> "NSE", quantity |-> 1,
                                  price |-> BasePrice], r)) :
        r \in {PlaceOrderSuccess(1), PlaceOrderFailure(<<"Order rejected">>)}}

\* store_arbitrage_spread(arbitrage_data)
StoreArbitrageSpread ==
    /\ Len(store_calls) < MaxStores
    /\ \E batch \in LogArbitrageData :
          \E fail_at \in IF batch = << >> THEN {0} ELSE 0..(Len(batch) + 1) :
              /\ arbitrage_spreads' =
                    IF batch = << >> THEN arbitrage_spreads
                    ELSE StoreRows(arbitrage_spreads,
                                   [k \in DOMAIN batch |->
                                       ArbitrageSpreadRow(batch[k], StoreTimestamp)],
                                   fail_at)
              /\ store_calls' = Append(store_calls,
                                       StoreCall("store_arbitrage_spread", batch, fail_at))
    /\ UNCHANGED <<cash_futures_spreads, arbVars, orderVars, reconVars, statusVars,
                   thetaVars, marginVars, venueVars, placeVars, sheetVars, clockVars>>

\* store_cash_futures_spread(opportunities)
StoreCashFuturesSpread ==
    /\ Len(store_calls) < MaxStores
    /\ \E batch \in LogOpportunities :
          \E fail_at \in IF batch = << >> THEN {0} ELSE 0..(Len(batch) + 1) :
              /\ cash_futures_spreads' =
                    IF batch = << >> THEN cash_futures_spreads
                    ELSE StoreRows(cash_futures_spreads,
                                   [k \in DOMAIN batch |->
                                       CashFuturesSpreadRow(batch[k], StoreTimestamp)],
                                   fail_at)
              /\ store_calls' = Append(store_calls,
                                       StoreCall("store_cash_futures_spread", batch, fail_at))
    /\ UNCHANGED <<arbitrage_spreads, arbVars, orderVars, reconVars, statusVars,
                   thetaVars, marginVars, venueVars, placeVars, sheetVars, clockVars>>

\* store_order_history(order_data): one insert, then the commit
StoreOrderHistory ==
    /\ Len(store_calls) < MaxStores
    /\ \E order_data \in LogOrderData, fail_at \in 0..2 :
          /\ order_history' = StoreRows(order_history, <<order_data>>, fail_at)
          /\ store_calls' = Append(store_calls,
                                   StoreCall("store_order_history", <<order_data>>, fail_at))
    /\ UNCHANGED <<arbitrage_spreads, cash_futures_spreads, arbVars, pc, todo,
                   order_sequence, leg, results, returned, gateway_calls, gateway_answers,
                   in_flight, next_order_id, clicks, reconVars, statusVars, thetaVars,
                   marginVars, venueVars, placeVars, sheetVars, clockVars>>

InitLog ==
    /\ LogIdle
    /\ ArbIdle /\ OrderIdle /\ ReconIdle /\ StatusIdle /\ ThetaIdle /\ MarginIdle /\ VenueIdle
    /\ PlaceIdle /\ SheetIdle /\ ClockIdle

NextLog ==
    \/ StoreArbitrageSpread
    \/ StoreCashFuturesSpread
    \/ StoreOrderHistory

SpecLog == InitLog /\ [][NextLog]_vars

---------------------------------------------------------------------------
(* Sheet-driven placement: STEP 1 of process_place_orders_with_kite and    *)
(* of process_place_orders (v3-working-test.py).  STEP 2,                  *)
(* update_order_statuses, writes columns H and I only and is the           *)
(* reconciliation cycle above.                                             *)

\* Data rows of the sheet, and cycles of one run.
MaxRows == 2
MaxPlaceCycles == 2

\* int(float(quantity_str)) raises
QuantityRaises(quantity_str) ==
    \/ \E i \in DOMAIN quantity_str : quantity_str[i] \notin NumberChars
    \/ FloatRaises(quantity_str)

\* The row reaches place_order_with_kite: columns A to C are filled, column D
\* does not read ORDER_PLACED, the quantity parses.
RowSubmitted(row) ==
    /\ row.symbol # "" /\ row.direction # "" /\ row.quantity_str # << >>
    /\ Upper(row.action_status) # "ORDER_PLACED"
    /\ ~QuantityRaises(row.quantity_str)

\* The loop over the rows.  answers[i] tells whether place_order_with_kite
\* returns an order id for row i (the quote was read and the gateway accepted)
\* or (None, None).  Yields the accepted rows in order: placements_updates.
RECURSIVE PlacementsUpdates(_, _, _)
PlacementsUpdates(sheet, answers, idx) ==
    IF idx > Len(sheet) THEN << >>
    ELSE (IF RowSubmitted(sheet[idx]) /\ answers[idx] THEN <<idx>> ELSE << >>)
         \o PlacementsUpdates(sheet, answers, idx + 1)

\* sheet.batch_update(placements_updates): D:G of each accepted row; the
\* order of the k-th update has the id first_id + k - 1.
BatchUpdate(sheet, updates, first_id) ==
    [i \in DOMAIN sheet |->
        IF \E k \in DOMAIN updates : updates[k] = i
        THEN [sheet[i] EXCEPT !.action_status = "Order_Placed",
                              !.order_id = Some(first_id - 1 +
                                                (CHOOSE k \in DOMAIN updates : updates[k] = i))]
        ELSE sheet[i]]

\* The end of the cycle: a batch_update that raises is printed, no more.
SheetAfterCycle(sheet, updates, first_id, write_ok) ==
    IF updates # << >> /\ write_ok THEN BatchUpdate(sheet, updates, first_id) ELSE sheet

\* One run of process_place_orders_with_kite (or process_place_orders).
ProcessPlaceOrders ==
    /\ place_cycles < MaxPlaceCycles
    /\ place_cycles' = place_cycles + 1
    /\ \E answers \in [DOMAIN actions_sheet -> BOOLEAN], write_ok \in BOOLEAN :
          LET updates == PlacementsUpdates(actions_sheet, answers, 1)
          IN /\ (\A i \in DOMAIN actions_sheet :
                    ~RowSubmitted(actions_sheet[i]) => ~answers[i])
             /\ (updates = << >> => write_ok)
             /\ sheet_orders' = sheet_orders \o updates
             /\ actions_sheet' = SheetAfterCycle(actions_sheet, updates,
                                                 Len(sheet_orders) + 1, write_ok)
    /\ UNCHANGED <<arbVars, orderVars, reconVars, statusVars, thetaVars, marginVars,
                   venueVars, placeVars, logVars, clockVars>>

\* Rows as a user or an earlier run left them.
ActionRows ==
    [symbol : {"", "A"}, direction : {"BUY"}, quantity_str : {<<"1">>, <<"x">>},
     action_status : {""}, order_id : {None}]
    \cup {[symbol |-> "A", direction |-> "BUY", quantity_str |-> <<"1">>,
           action_status |-> "Order_Placed", order_id |-> Some(0)]}

InitSheet ==
    /\ actions_sheet \in SeqsUpTo(ActionRows, MaxRows)
    /\ sheet_orders = << >>
    /\ place_cycles = 0
    /\ ArbIdle /\ OrderIdle /\ ReconIdle /\ StatusIdle /\ ThetaIdle /\ MarginIdle /\ VenueIdle
    /\ PlaceIdle /\ LogIdle /\ ClockIdle

NextSheet == ProcessPlaceOrders

SpecSheet == InitSheet /\ [][NextSheet]_vars

---------------------------------------------------------------------------
(* Properties of the order orchestrator, checked under Spec and SpecPair   *)

\* A batch is being executed: its legs are built and it has not returned.
InBatch == pc \in {"send", "wait"}

\* The number of gateway calls made for the batch being executed.
SentOfBatch == IF InBatch THEN leg ELSE 0

\* The gateway call at position k is the placement of the given leg.
IsPlacementOf(call, order) ==
    /\ call.op = "place_order"
    /\ call.tradingsymbol = order.symbol
    /\ call.exchange = order.exchange
    /\ call.transaction_type = order.action
    /\ call.quantity = order.quantity
    /\ call.product = order.product
    /\ call.order_type = order.order_type

\* C1: every call the program makes on the gateway is a placement, and the
\* calls are exactly the placements of the legs of the batches executed so
\* far, two per returned batch and one per leg sent of the batch in progress:
\* nothing is sent for an accepted leg when its sibling is rejected.  A
\* returned batch reports for each leg the gateway's own answer, so Buy
\* accepted and Sell rejected is reported as success, then failure.
C1_OnlyPlacementsOfOwnLegs ==
    /\ \A k \in DOMAIN gateway_calls : gateway_calls[k].op = "place_order"
    /\ Len(gateway_calls) = 2 * Len(returned) + SentOfBatch
    /\ \A b \in DOMAIN returned : \A k \in DOMAIN returned[b] :
          /\ IsPlacementOf(gateway_calls[2 * (b - 1) + k], returned[b][k].order)
          /\ gateway_answers[2 * (b - 1) + k].accepted = returned[b][k].result.success
    /\ InBatch => \A k \in 1..leg :
          IsPlacementOf(gateway_calls[2 * Len(returned) + k], order_sequence[k])

\* A cross-venue batch has returned with the Buy accepted and the Sell rejected.
C1_Witness ==
    \E b \in DOMAIN returned :
        /\ Len(returned[b]) = 2
        /\ returned[b][1].order.action = "BUY" /\ returned[b][1].result.success
        /\ returned[b][2].order.action = "SELL" /\ ~returned[b][2].result.success
        /\ gateway_answers[2 * b - 1].accepted /\ ~gateway_answers[2 * b].accepted
        /\ returned[b][1].order.product = "MIS"

\* C2: whatever the gateway answered to each leg, a returned batch holds one
\* entry per leg of the pair, in submission order (BUY, then SELL), each
\* entry carrying the answer the gateway gave to that leg; and both legs
\* were sent to the gateway.
C2_OneEntryPerLegInOrder ==
    \A b \in DOMAIN returned :
        /\ Len(returned[b]) = 2
        /\ returned[b][1].order.action = "BUY"
        /\ returned[b][2].order.action = "SELL"
        /\ \A k \in 1..2 :
              /\ Len(gateway_answers) >= 2 * (b - 1) + k
              /\ gateway_answers[2 * (b - 1) + k].leg = k
              /\ returned[b][k].result.success = gateway_answers[2 * (b - 1) + k].accepted
              /\ returned[b][k].result.success <=> returned[b][k].result.order_id # None

\* A batch has returned whose Buy was rejected and whose Sell was accepted.
C2_Witness ==
    \E b \in DOMAIN returned :
        /\ Len(returned[b]) = 2
        /\ ~returned[b][1].result.success
        /\ returned[b][2].result.success
        /\ returned[b][1].order.action = "BUY"

\* The price an opportunity snapshot records for a venue.
SnapshotPrice(opp, exchange) == IF exchange = "NSE" THEN opp.nse_price ELSE opp.bse_price

\* The price the quote list fed to the evaluator held for a symbol on a venue.
QuotedPrice(symbol, exchange) == GroupQuote(live_prices_data, symbol, exchange).last_price

\* C3: while a cross-venue batch is executed, its order_sequence is two legs,
\* a BUY on the venue whose snapshot price is the lower and a SELL on the
\* other venue, both LIMIT and MIS for the requested quantity, each priced at
\* its venue's price in the snapshot, which is the price of the evaluated
\* quote; and the calls sent carry these prices.
C3_BuyLowSellHighAtSnapshot ==
    (InBatch /\ Head(todo).kind = "arbitrage") =>
        LET opp == Head(todo).opp
            s   == order_sequence
        IN /\ Len(s) = 2
           /\ s[1].action = "BUY" /\ s[2].action = "SELL"
           /\ {s[1].exchange, s[2].exchange} = {"NSE", "BSE"}
           /\ SnapshotPrice(opp, s[1].exchange) <= SnapshotPrice(opp, s[2].exchange)
           /\ \A k \in 1..2 :
                 /\ s[k].symbol = opp.symbol
                 /\ s[k].order_type = "LIMIT"
                 /\ s[k].product = "MIS"
                 /\ s[k].quantity = Head(todo).quantity
                 /\ s[k].price = Some(SnapshotPrice(opp, s[k].exchange))
                 /\ s[k].price = Some(QuotedPrice(opp.symbol, s[k].exchange))
           /\ \A k \in 1..leg :
                 LET call == gateway_calls[2 * Len(returned) + k]
                 IN /\ IsPlacementOf(call, s[k])
                    /\ call.price = s[k].price

\* Both legs of a pair whose NSE price is the higher have been sent: the BUY
\* went to BSE.
C3_Witness ==
    /\ InBatch /\ leg = 2
    /\ Head(todo).kind = "arbitrage"
    /\ Head(todo).opp.nse_price > Head(todo).opp.bse_price
    /\ gateway_calls[Len(gateway_calls)].transaction_type = "SELL"
    /\ gateway_calls[Len(gateway_calls)].exchange = "NSE"
    /\ Head(todo).quantity = MaxQty

\* The lots a request asks for, where the contract fixes it: an integer of at
\* least 1 is kept; 0, a negative number, a missing or a non-numeric value is 1.
\* << >> where the contract leaves the value open (fractions, digit strings).
RequestedLots(lots) ==
    IF lots.t = "int" THEN (IF lots.v >= 1 THEN Some(lots.v) ELSE Some(1))
    ELSE IF lots.t \in {"none", "badstr", "emptystr"} THEN Some(1)
    ELSE None

\* C4: while a cash-futures pair is executed, its legs are a BUY of the cash
\* symbol on NSE with product CNC and a SELL of the futures symbol on NFO with
\* product NRML, both MARKET; the quantity of both is lot_size * lots with
\* lots at least 1, equal to the requested lots when that is an integer of at
\* least 1 and to 1 when it is 0, negative, missing or not numeric; and the
\* calls sent carry no price.
C4_CashFuturesLegs ==
    (InBatch /\ Head(todo).kind = "cash_futures") =>
        LET request == Head(todo)
            s       == order_sequence
        IN /\ Len(s) = 2
           /\ s[1].action = "BUY" /\ s[1].symbol = request.opp.symbol
           /\ s[1].exchange = "NSE" /\ s[1].product = "CNC"
           /\ s[2].action = "SELL" /\ s[2].exchange = "NFO" /\ s[2].product = "NRML"
           /\ s[2].symbol \in {request.opp.futures_symbol_api, request.opp.futures_symbol} \ {""}
           /\ \A k \in 1..2 :
                 /\ s[k].order_type = "MARKET"
                 /\ s[k].lots >= 1
                 /\ RequestedLots(request.lots) # None =>
                        s[k].lots = RequestedLots(request.lots)[1]
                 /\ s[k].quantity = s[k].lot_size * s[k].lots
                 /\ s[k].quantity = s[1].quantity
           /\ \A k \in 1..leg :
                 /\ IsPlacementOf(gateway_calls[2 * Len(returned) + k], s[k])
                 /\ gateway_calls[2 * Len(returned) + k].price = None

\* Both legs of a pair requested with a negative number of lots have been
\* sent, for one lot of the size the table gives.
C4_Witness ==
    /\ InBatch /\ leg = 2
    /\ Head(todo).kind = "cash_futures"
    /\ Head(todo).lots = PyIntV(-1)
    /\ Head(todo).opp.lot_size = PyNone /\ Head(todo).map_lot = PyIntV(3)
    /\ gateway_calls[1].quantity = 3 /\ gateway_calls[2].quantity = 3
    /\ gateway_calls[2].tradingsymbol = "A25NOV"

\* C5: at most one gateway call is in flight; the call in flight is for the
\* leg after the legs of its batch already reported, every earlier batch has
\* returned both its legs, and every call made before it has been answered,
\* in the order the calls were made.
C5_OneLegInFlight ==
    /\ Cardinality(in_flight) <= 1
    /\ Len(gateway_calls) = Len(gateway_answers) + Cardinality(in_flight)
    /\ \A k \in DOMAIN gateway_answers :
          /\ gateway_answers[k].batch = ((k - 1) \div 2) + 1
          /\ gateway_answers[k].leg = ((k - 1) % 2) + 1
    /\ \A c \in in_flight :
          /\ c.batch = Len(returned) + 1
          /\ c.leg = Len(results) + 1
          /\ Len(gateway_answers) = 2 * Len(returned) + Len(results)
          /\ \A b \in DOMAIN returned : Len(returned[b]) = 2

\* One click executes two opportunities: the first batch has returned and the
\* Sell leg of the second is in flight.
C5_Witness ==
    /\ Len(returned) = 1
    /\ in_flight = {[batch |-> 2, leg |-> 2]}
    /\ Len(results) = 1
    /\ Len(todo) = 1

---------------------------------------------------------------------------
(* Properties of the status reconciler, checked under SpecStatus and       *)
(* SpecRecon                                                               *)

\* The timestamp of an event can be parsed.
Parseable(e) == e.exchange_timestamp.k = "ok"

\* C7: the status check_order_status reports for a non-empty history is the
\* one derived from an event of that history than which no event carries a
\* greater timestamp.
C7_GreatestTimestampDecides ==
    reported # None =>
        LET latest == latest_status[1]
        IN /\ \E i \in DOMAIN kite_order_history : kite_order_history[i] = latest
           /\ reported = Some(DetailedStatus(latest))
           /\ Parseable(latest) =>
                 \A j \in DOMAIN kite_order_history :
                     Parseable(kite_order_history[j]) =>
                         kite_order_history[j].exchange_timestamp.t
                             <= latest.exchange_timestamp.t

\* Events returned with timestamps T+2, T+0, T+1: the status of the first
\* returned, the T+2 one, is reported.
C7_Witness ==
    /\ Len(kite_order_history) = 3
    /\ kite_order_history[1] = Event("COMPLETE", FALSE, TsAt(3))
    /\ kite_order_history[2] = Event("OPEN", FALSE, TsAt(1))
    /\ kite_order_history[3] = Event("OPEN", TRUE, TsAt(2))
    /\ reported = Some(Display("COMPLETE", 1))

\* C8 as stated: when some event of the history has a parseable timestamp,
\* the event taken as the latest has a parseable timestamp.
C8_AnyParseableOutranksUnparseable ==
    (reported # None /\ \E j \in DOMAIN kite_order_history :
                            Parseable(kite_order_history[j]))
        => Parseable(latest_status[1])

\* C8, amended: when some event of the history has a parseable timestamp
\* later than the oldest instant, datetime.min, the event taken as the latest
\* has a parseable timestamp.
C8_LaterParseableOutranksUnparseable ==
    (reported # None /\ \E j \in DOMAIN kite_order_history :
                            /\ Parseable(kite_order_history[j])
                            /\ kite_order_history[j].exchange_timestamp.t > DatetimeMin)
        => Parseable(latest_status[1])

\* The gateway returned an event without timestamp last, after an event with
\* an unparseable and one with a parseable timestamp: the parseable one decides.
C8_Witness ==
    /\ Len(kite_order_history) = 3
    /\ kite_order_history[1] = Event("OPEN", TRUE, TsBad)
    /\ kite_order_history[2] = Event("OPEN", FALSE, TsAt(2))
    /\ kite_order_history[3] = Event("COMPLETE", FALSE, TsMissing)
    /\ latest_status = Some(kite_order_history[2])
    /\ reported = Some(Display("OPEN", 0))

\* The lifecycle state a recorded status stands for: column H is empty from
\* submission until the first poll writes it.
LegState(row) ==
    CASE row.order_status.s = ""             -> "Submitted"
      [] row.order_status.s = "OPEN"         -> "Open"
      [] row.order_status.s = "OPEN PENDING" -> "PartiallyFilled"
      [] row.order_status.s = "COMPLETE"     -> "Filled"
      [] row.order_status.s = "CANCELLED"    -> "Cancelled"
      [] row.order_status.s = "REJECTED"     -> "Rejected"
      [] OTHER                               -> "Unknown"

\* The transitions of the lifecycle of an order leg.
LifecycleTransitions ==
    {<<"Submitted", "Open">>, <<"Submitted", "Rejected">>,
     <<"Open", "PartiallyFilled">>, <<"Open", "Filled">>, <<"Open", "Cancelled">>,
     <<"PartiallyFilled", "PartiallyFilled">>, <<"PartiallyFilled", "Filled">>,
     <<"PartiallyFilled", "Cancelled">>}

\* C6: whenever the recorded status of a row changes its lifecycle state, the
\* change is one of the lifecycle's transitions; in particular a row recorded
\* as Filled, Cancelled or Rejected keeps that state.
C6_RecordedStatusFollowsLifecycle ==
    [][\A i \in DOMAIN rows :
          LegState(rows[i]) # LegState(rows'[i]) =>
              <<LegState(rows[i]), LegState(rows'[i])>> \in LifecycleTransitions]_vars

\* C9: a row whose query failed in the running cycle (the query raised, or
\* answered no event) gets no status update: a failed query appends nothing
\* to the batch and adds one to error_count, every Order_Placed row passed
\* so far in the cycle has been queried, and when the cycle ends the row's
\* status and status timestamp are what the cycle read at its start, the row
\* still being one the next cycle queries.
C9_FailedQueryLeavesRowAlone ==
    [][/\ \A p \in polled : p.failed =>
              /\ rows'[p.row].order_status = snapshot[p.row].order_status
              /\ rows'[p.row].status_timestamp = snapshot[p.row].status_timestamp
              /\ NeedsStatus(rows'[p.row])
       /\ rpc' = "loop" =>
              /\ error_count' = Cardinality({p \in polled' : p.failed})
              /\ updated_count' = Cardinality({p \in polled' : ~p.failed})
              /\ {p.row : p \in polled'}
                     = {i \in 1..(ridx' - 1) : NeedsStatus(snapshot'[i])}
              /\ \A k \in DOMAIN status_updates' :
                     \E p \in polled' : p.row = status_updates'[k].row /\ ~p.failed]_vars

\* In its second cycle the reconciler has queried every row: the query of a
\* row that carries a status from the first cycle failed, the query of a
\* later row succeeded.
C9_Witness ==
    /\ rpc = "loop" /\ ridx > Len(snapshot)
    /\ cycles = 1
    /\ error_count = 1 /\ updated_count = 1
    /\ \E p, q \in polled :
          /\ p.failed /\ ~q.failed /\ p.row < q.row
          /\ rows[p.row].order_status # NoStatus
          /\ rows[p.row].status_timestamp = CycleTimestamp(0)

---------------------------------------------------------------------------
(* Properties of the spread engine, checked under SpecArb                  *)

\* C10: every entry of arbitrage_data is flagged profitable exactly when its
\* price_difference_pct is strictly above 0.05, whatever threshold was passed.
C10_ProfitableIffAboveFiveHundredths ==
    evaluated =>
        \A i \in DOMAIN arbitrage_data :
            LET e == arbitrage_data[i]
            IN e.is_profitable <=>
                   (e.price_difference_pct.n * 100 > 5 * e.price_difference_pct.d)

\* Evaluated with the threshold 0.05: an entry whose difference is exactly
\* 0.05 percent is listed and is not profitable.
C10_Witness ==
    /\ evaluated
    /\ min_profit_threshold = 5
    /\ \E i \in DOMAIN arbitrage_data :
          /\ arbitrage_data[i].price_difference_pct.n * 100
                 = 5 * arbitrage_data[i].price_difference_pct.d
          /\ arbitrage_data[i].price_difference = 1
          /\ ~arbitrage_data[i].is_profitable

\* A symbol quoted on both venues at positive prices whose difference is
\* strictly above 0.05 percent of the lower price: a profitable pair.
ProfitablePair(sym) ==
    /\ {"NSE", "BSE"} \subseteq GroupExchanges(live_prices_data, sym)
    /\ LET nse == GroupQuote(live_prices_data, sym, "NSE").last_price
           bse == GroupQuote(live_prices_data, sym, "BSE").last_price
       IN /\ nse > 0 /\ bse > 0
          /\ Abs(nse - bse) * 100 * 100 > 5 * Min2(nse, bse)

\* C11: whatever threshold was passed, every profitable pair of the quote
\* list has its entry in arbitrage_data, so that the threshold removes only
\* rows that are not profitable.
C11_ThresholdKeepsProfitablePairs ==
    evaluated =>
        \A sym \in Symbols :
            ProfitablePair(sym) =>
                \E i \in DOMAIN arbitrage_data : arbitrage_data[i].symbol = sym


---------------------------------------------------------------------------
(* Properties of the cash-futures evaluator *)

\* C12: the sequence returned by calculate_cash_futures_opportunities is
\* non-increasing in opportunity_score from each entry to the next, on every
\* return path, the one taken after an exception in the loop included.
C12_ReturnedSequenceNonIncreasing ==
    tpc = "returned" =>
        \A i \in 1..(Len(opportunities) - 1) :
            ~FracLT(opportunities[i].opportunity_score,
                    opportunities[i + 1].opportunity_score)

PremiumOf(e) == e.futures_price - e.cash_price

PremiumPctOf(e) == Frac(PremiumOf(e) * 100, e.cash_price)

AnnualizedOf(e) == Frac(PremiumOf(e) * 100 * 365, e.cash_price * e.days_to_expiry)

ScoreOf(e) == Frac(PremiumOf(e) * 100 * e.days_to_expiry, e.cash_price * 30)

ValidForTheta(stock) ==
    /\ FuturesEntryOf(futures_data, stock) # None
    /\ theta_quotes # None
    /\ theta_quotes[1][stock] # None
    /\ LET q == theta_quotes[1][stock][1]
       IN /\ q.cash.t = "int" /\ q.cash.v > 0
          /\ q.fut.t = "int" /\ q.fut.v > 0

\* C19: a failure local to one symbol (here a malformed quote field) leaves
\* only that symbol out: once quotes were answered, the evaluator returns an
\* entry for every other valid symbol of the list, wherever the failing one
\* sits.
C19_OtherValidSymbolsStillReturned ==
    tpc = "returned" =>
        \A i \in DOMAIN stock_symbols :
            ValidForTheta(stock_symbols[i]) =>
                \E j \in DOMAIN opportunities :
                    opportunities[j].symbol = stock_symbols[i]

---------------------------------------------------------------------------
(* Properties of the lot size *)

PositiveInteger(x) == x.t = "int" /\ x.v >= 1

\* C15: the lot size is an integer of at least 1 in every entry
\* get_futures_contracts and calculate_cash_futures_opportunities produce and
\* in the legs place_cash_futures_orders builds, whatever LOT_SIZE_MAP, the
\* venue's row or the opportunity's lot_size field hold (0, negative, null,
\* non-numeric); so every quantity sent for a cash-futures leg is at least 1.
C15_LotSizeAtLeastOne ==
    /\ \A i \in DOMAIN futures_data : PositiveInteger(futures_data[i].lot_size)
    /\ \A i \in DOMAIN opportunities : PositiveInteger(opportunities[i].lot_size)
    /\ \A k \in DOMAIN order_sequence :
          /\ order_sequence[k].lot_size >= 1
          /\ order_sequence[k].quantity >= order_sequence[k].lot_size
    /\ \A k \in DOMAIN gateway_calls : gateway_calls[k].quantity >= 1

\* A scan whose table holds 0 for the stock and whose venue row holds a
\* non-numeric lot size listed the stock with lot size 1, and both legs of
\* its pair, requested with 0 lots, were sent for a quantity of 1.
C15_Witness ==
    /\ tpc = "listed"
    /\ lot_size_map["A"] = Some(PyIntV(0))
    /\ instruments # None
    /\ instruments[1]["A"][1].lot_size = Some(PyBadStr)
    /\ Len(futures_data) = 1 /\ futures_data[1].lot_size = PyIntV(1)
    /\ Len(opportunities) = 1 /\ opportunities[1].lot_size = PyIntV(1)
    /\ InBatch /\ leg = 2
    /\ Head(todo).lots = PyIntV(0)
    /\ gateway_calls[1].quantity = 1 /\ gateway_calls[2].quantity = 1

---------------------------------------------------------------------------
(* Properties of the margin estimate *)

C20_MarginNeverBlocksSubmission ==
    /\ (market_open /\ pc = "idle") =>
           Len(gateway_calls) =
               2 * clicks * Len(ProfitableOpportunities(arbitrage_data))
    /\ \A k \in DOMAIN gateway_calls : gateway_calls[k].op = "place_order"

\* An execute-all click made with 1000 available against a larger estimate
\* has been handled, and two legs per profitable opportunity went out.
C20_Witness ==
    /\ market_open /\ pc = "idle" /\ clicks = 1
    /\ kite_margins = Some(1000)
    /\ FracLT(Frac(1000, 1),
              TotalMarginRequired(ProfitableOpportunities(arbitrage_data), 1, "MIS"))
    /\ Len(ProfitableOpportunities(arbitrage_data)) = 2
    /\ Len(gateway_calls) = 4

---------------------------------------------------------------------------
(* Properties of venue auto-detection *)

\* The symbol holds one of the four currency pairs, in any case.
HoldsCurrencyPair(symbol) ==
    \E pair \in {USDINR, EURINR, GBPINR, JPYINR} : Contains(UpperChars(symbol), pair)

\* The symbol holds the letters INR in a row, in any case.
HoldsInr(symbol) == Contains(UpperChars(symbol), INR)

AllCopiesChose(venue) ==
    /\ detected[1].auto_detect_exchange = venue
    /\ detected[1].place_order_with_kite = venue
    /\ detected[1].place_order = venue

\* C16 as stated: a symbol with fewer than two digits is sent to NSE, one
\* with two or more digits and none of the four currency pairs to NFO, one
\* with two or more digits and one of the four pairs to CDS, by all three
\* copies of the rule.
C16_FourPairsDecide ==
    detected # None =>
        IF CountDigits(venue_symbol) < 2 THEN AllCopiesChose("NSE")
        ELSE IF HoldsCurrencyPair(venue_symbol) THEN AllCopiesChose("CDS")
        ELSE AllCopiesChose("NFO")

\* C16: a symbol with fewer than two digits is sent to NSE, one with two or
\* more digits and without the letters INR (in any case) to NFO, one with two
\* or more digits and the letters INR, which each of the four pairs holds, to
\* CDS, by all three copies of the rule.
C16_InrDecides ==
    detected # None =>
        IF CountDigits(venue_symbol) < 2 THEN AllCopiesChose("NSE")
        ELSE IF HoldsInr(venue_symbol) THEN AllCopiesChose("CDS")
        ELSE AllCopiesChose("NFO")

\* The three copies sent inr25, typed in lower case, to CDS.
C16_Witness ==
    /\ detected # None
    /\ venue_symbol = <<"i", "n", "r", "2", "5">>
    /\ AllCopiesChose("CDS")

---------------------------------------------------------------------------
(* Properties of an aborted run *)

\* C18: when the handling of a click is cut short after the gateway accepted
\* some legs, every order the gateway accepted has its order_history row.
C18_AcceptedOrdersAreRecorded ==
    pc = "aborted" =>
        \A id \in 1..(next_order_id - 1) :
            \E h \in DOMAIN order_history : order_history[h].order_id = Some(id)


---------------------------------------------------------------------------
(* Properties of place_order's result, checked under SpecPlace *)

\* The text writes a number after the phrase: the phrase, " is ", a digit.
EncodesNumber(error_msg, phrase) ==
    \E i \in 1..(Len(error_msg) - 2) :
        /\ error_msg[i] = phrase
        /\ error_msg[i + 1] = Is
        /\ error_msg[i + 2] \in NumberChars \ {"."}

\* C21: a result of place_order has success = true with the gateway's order
\* id when the call returned, and success = false with no order id and the
\* gateway's text as message when it raised; the margin_info of a rejected
\* result holds both the required and the available number when the text
\* writes both, and never only one of the two.
C21_ResultAndMarginPair ==
    place_result # None =>
        LET answer == place_answer[1]
            result == place_result[1]
        IN IF answer.raised
           THEN /\ ~result.success
                /\ result.order_id = None
                /\ result.message = answer.error_msg
                /\ (result.margin_info.required = None) <=> (result.margin_info.available = None)
                /\ (/\ EncodesNumber(answer.error_msg, RequiredMargin)
                    /\ EncodesNumber(answer.error_msg, AvailableMargin))
                      => /\ result.margin_info.required # None
                         /\ result.margin_info.available # None
           ELSE /\ result.success
                /\ result.order_id = Some(answer.order_id)


---------------------------------------------------------------------------
(* Properties of the spread evaluator on books with gaps, under SpecBook *)

\* The quote list holds a quote of the symbol at the venue.
QuotedAt(sym, ex) ==
    \E i \in DOMAIN live_prices_data :
        live_prices_data[i].symbol = sym /\ live_prices_data[i].exchange = ex

\* The price the evaluator reads for the symbol at the venue is positive.
PositiveAt(sym, ex) ==
    QuotedAt(sym, ex) /\ GroupQuote(live_prices_data, sym, ex).last_price > 0

\* C22: calculate_arbitrage_opportunities returns at most one entry per
\* symbol, and an entry only for a symbol quoted at both venues with both last
\* prices strictly positive: a symbol quoted at one venue only, or with a
\* zero or negative price at either venue, has no entry.
C22_OneEntryPerSymbolBothVenuesPositive ==
    evaluated =>
        /\ \A i, j \in DOMAIN arbitrage_data :
              arbitrage_data[i].symbol = arbitrage_data[j].symbol => i = j
        /\ \A i \in DOMAIN arbitrage_data :
              /\ PositiveAt(arbitrage_data[i].symbol, "NSE")
              /\ PositiveAt(arbitrage_data[i].symbol, "BSE")
              /\ arbitrage_data[i].nse_price > 0
              /\ arbitrage_data[i].bse_price > 0
        /\ \A sym \in Symbols :
              (~PositiveAt(sym, "NSE") \/ ~PositiveAt(sym, "BSE")) =>
                  \A i \in DOMAIN arbitrage_data : arbitrage_data[i].symbol # sym

\* Evaluated: A has an entry although it is quoted three times, or A has an
\* entry while B, quoted with a negative or dead price, has none.
C22_Witness ==
    /\ evaluated
    /\ Len(arbitrage_data) = 1
    /\ arbitrage_data[1].symbol = "A"
    /\ Len(live_prices_data) = 3
    /\ \/ \A i \in DOMAIN live_prices_data : live_prices_data[i].symbol = "A"
       \/ \E i \in DOMAIN live_prices_data :
              live_prices_data[i].symbol = "B" /\ live_prices_data[i].last_price <= 0


---------------------------------------------------------------------------
(* Properties of contract resolution, checked under SpecLots *)

\* C23: when the nearest-expiry futures row of a symbol has non-positive
\* days to expiry, no contract is resolved for the symbol in the cycle (no
\* roll to a later expiry) and the symbol has no cash-futures opportunity.
C23_NoRollPastNearestExpiry ==
    (tpc \in {"resolved", "listed"} /\ instruments # None) =>
        \A k \in DOMAIN stock_symbols :
            LET stock == stock_symbols[k]
                frame == instruments[1][stock]
            IN (/\ frame # << >>
                /\ frame[1].expiry # None
                /\ frame[1].expiry[1] <= 0)
               => /\ FuturesEntryOf(futures_data, stock) = None
                  /\ \A i \in DOMAIN opportunities : opportunities[i].symbol # stock


---------------------------------------------------------------------------
(* Properties of the durable log, checked under SpecLog *)

IsPrefix(a, b) == Len(a) <= Len(b) /\ SubSeq(b, 1, Len(a)) = a

\* The call a step has made.
LastCall == store_calls'[Len(store_calls')]

\* C24: the log is append-only under the store calls: a call of
\* store_arbitrage_spread, store_cash_futures_spread or store_order_history
\* leaves every stored row as it was and, when it succeeds, adds one row per
\* opportunity or order, whether or not the same opportunities are stored
\* already.
C24_StoreCallsOnlyAppend ==
    [][ /\ IsPrefix(arbitrage_spreads, arbitrage_spreads')
        /\ IsPrefix(cash_futures_spreads, cash_futures_spreads')
        /\ IsPrefix(order_history, order_history')
        /\ (Len(store_calls') = Len(store_calls) + 1 /\ LastCall.fail_at = 0) =>
              /\ Len(arbitrage_spreads') + Len(cash_futures_spreads') + Len(order_history')
                   = Len(arbitrage_spreads) + Len(cash_futures_spreads) + Len(order_history)
                     + Len(LastCall.batch)
              /\ LastCall.fn = "store_arbitrage_spread" =>
                    Len(arbitrage_spreads') = Len(arbitrage_spreads) + Len(LastCall.batch)
              /\ LastCall.fn = "store_cash_futures_spread" =>
                    Len(cash_futures_spreads') = Len(cash_futures_spreads) + Len(LastCall.batch)
              /\ LastCall.fn = "store_order_history" =>
                    Len(order_history') = Len(order_history) + 1 ]_vars

\* The same two opportunities were stored in two cycles: four rows.
C24_Witness ==
    /\ Len(store_calls) = 2
    /\ store_calls[1].fn = "store_arbitrage_spread"
    /\ store_calls[2].fn = "store_arbitrage_spread"
    /\ store_calls[1].batch = store_calls[2].batch
    /\ Len(store_calls[1].batch) = 2
    /\ store_calls[1].fail_at = 0 /\ store_calls[2].fail_at = 0
    /\ Len(arbitrage_spreads) = 4
    /\ arbitrage_spreads[1].symbol = arbitrage_spreads[3].symbol
    /\ arbitrage_spreads[1].timestamp # arbitrage_spreads[3].timestamp

\* C30: a call of store_arbitrage_spread or store_cash_futures_spread in
\* which an insert (or the commit) fails persists none of its rows, leaves
\* the rows of earlier calls as they were, and returns to its caller.
C30_FailedStoreIsAllOrNothing ==
    [][ (/\ Len(store_calls') = Len(store_calls) + 1
         /\ LastCall.fn \in {"store_arbitrage_spread", "store_cash_futures_spread"}
         /\ LastCall.fail_at # 0)
        => /\ arbitrage_spreads' = arbitrage_spreads
           /\ cash_futures_spreads' = cash_futures_spreads
           /\ order_history' = order_history
           /\ LastCall.outcome = "returned" ]_vars

\* A first call stored two rows; in a second call the first insert went
\* through and the second raised: the table holds the first call's rows only.
C30_Witness ==
    /\ Len(store_calls) = 2
    /\ store_calls[1].fn = "store_arbitrage_spread" /\ store_calls[1].fail_at = 0
    /\ store_calls[2].fn = "store_arbitrage_spread" /\ store_calls[2].fail_at = 2
    /\ Len(store_calls[1].batch) = 2 /\ Len(store_calls[2].batch) = 2
    /\ Len(arbitrage_spreads) = 2
    /\ \A i \in 1..2 : arbitrage_spreads[i].timestamp = 1


---------------------------------------------------------------------------
(* Properties of the order among equal scores, checked under SpecTies *)

\* Position of the first quote of the symbol in the quote list.
FirstQuoteOf(sym) ==
    CHOOSE i \in DOMAIN live_prices_data :
        /\ live_prices_data[i].symbol = sym
        /\ \A j \in 1..(i - 1) : live_prices_data[j].symbol # sym

\* Position of the stock in stock_symbols.
PositionOf(stock) == CHOOSE i \in DOMAIN stock_symbols : stock_symbols[i] = stock

\* C25: entries of equal score keep the order of the input: in the result of
\* calculate_arbitrage_opportunities the order in which their symbols first
\* occur in the quote list, in the result of
\* calculate_cash_futures_opportunities the order of stock_symbols.
C25_EqualScoresKeepInputOrder ==
    /\ evaluated =>
          \A i, j \in DOMAIN arbitrage_data :
              (i < j /\ FracEQ(arbitrage_data[i].arbitrage_score,
                               arbitrage_data[j].arbitrage_score))
                  => FirstQuoteOf(arbitrage_data[i].symbol)
                       < FirstQuoteOf(arbitrage_data[j].symbol)
    /\ tpc = "returned" =>
          \A i, j \in DOMAIN opportunities :
              (i < j /\ FracEQ(opportunities[i].opportunity_score,
                               opportunities[j].opportunity_score))
                  => PositionOf(opportunities[i].symbol) < PositionOf(opportunities[j].symbol)

\* B is quoted before A, both have the same score above zero, and B's entry
\* comes first.
C25_Witness ==
    /\ evaluated
    /\ Len(arbitrage_data) = 2
    /\ arbitrage_data[1].symbol = "B"
    /\ live_prices_data[1].symbol = "B"
    /\ arbitrage_data[1].arbitrage_score.n > 0
    /\ FracEQ(arbitrage_data[1].arbitrage_score, arbitrage_data[2].arbitrage_score)


---------------------------------------------------------------------------
(* Properties of the sheet-driven placement cycles, checked under SpecSheet *)

\* C26: across the placement cycles, cycles whose batch write to the sheet
\* fails included, each Actions row leads to at most one order accepted by
\* the gateway.
C26_AtMostOneAcceptedOrderPerRow ==
    \A i \in DOMAIN actions_sheet :
        Cardinality({k \in DOMAIN sheet_orders : sheet_orders[k] = i}) <= 1


---------------------------------------------------------------------------
(* Properties of the quantities of a pair, checked under SpecDesk *)

\* C27: the two legs of every submitted batch carry the same quantity: the
\* caller's quantity in place_arbitrage_orders, the one value lot_size x lots
\* in place_cash_futures_orders, whatever the outcome of the first leg.
C27_BothLegsSameQuantity ==
    /\ \A b \in 1..(Len(gateway_calls) \div 2) :
          gateway_calls[2 * b - 1].quantity = gateway_calls[2 * b].quantity
    /\ \A b \in DOMAIN returned :
          /\ Len(returned[b]) = 2
          /\ returned[b][1].order.quantity = returned[b][2].order.quantity
    /\ (pc \in {"send", "wait"} /\ Head(todo).kind = "arbitrage") =>
          \A k \in DOMAIN order_sequence :
              order_sequence[k].quantity = Head(todo).quantity
    /\ (pc \in {"send", "wait"} /\ Head(todo).kind = "cash_futures") =>
          \A k \in DOMAIN order_sequence :
              order_sequence[k].quantity
                  = order_sequence[k].lot_size * order_sequence[k].lots

\* A theta pair of four shares was sent whole although its Buy leg was
\* rejected, or an arbitrage pair of two shares was sent.
C27_Witness ==
    /\ Len(returned) = 1
    /\ Len(gateway_calls) = 2
    /\ gateway_calls[1].quantity >= 2
    /\ gateway_calls[1].quantity = gateway_calls[2].quantity
    /\ ~returned[1][1].result.success
    /\ returned[1][2].result.success


---------------------------------------------------------------------------
(* Properties of the venues of a pair, checked under Spec *)

\* C28: every entry of arbitrage_data, one with equal venue prices included,
\* names the two venues as higher_exchange and lower_exchange with
\* higher_price >= lower_price, and the pair place_arbitrage_orders builds
\* from it buys on one venue and sells on the other at a Buy limit price not
\* above the Sell limit price.
C28_TwoVenuesBuyNotAboveSell ==
    /\ \A i \in DOMAIN arbitrage_data :
          LET e == arbitrage_data[i]
          IN /\ {e.higher_exchange, e.lower_exchange} = {"NSE", "BSE"}
             /\ e.higher_exchange # e.lower_exchange
             /\ e.higher_price >= e.lower_price
             /\ e.higher_price = IF e.higher_exchange = "NSE" THEN e.nse_price ELSE e.bse_price
             /\ e.lower_price = IF e.lower_exchange = "NSE" THEN e.nse_price ELSE e.bse_price
    /\ \A b \in 1..(Len(gateway_calls) \div 2) :
          LET buy  == gateway_calls[2 * b - 1]
              sell == gateway_calls[2 * b]
          IN /\ buy.transaction_type = "BUY" /\ sell.transaction_type = "SELL"
             /\ buy.exchange # sell.exchange
             /\ {buy.exchange, sell.exchange} = {"NSE", "BSE"}
             /\ buy.price # None /\ sell.price # None
             /\ buy.price[1] <= sell.price[1]

\* The pair of an opportunity with equal venue prices has been sent: Buy on
\* NSE, Sell on BSE, at the same limit price.
C28_Witness ==
    /\ Len(gateway_calls) = 2
    /\ \E i \in DOMAIN arbitrage_data :
          /\ arbitrage_data[i].nse_price = arbitrage_data[i].bse_price
          /\ arbitrage_data[i].symbol = gateway_calls[1].tradingsymbol
          /\ arbitrage_data[i].higher_exchange = "BSE"
    /\ gateway_calls[1].exchange = "NSE" /\ gateway_calls[2].exchange = "BSE"
    /\ gateway_calls[1].price = gateway_calls[2].price


---------------------------------------------------------------------------
(* Properties of the market-hours gate, checked under SpecHours *)

\* 9:15 AM to 3:30 PM IST
WithinMarketHours(time) == 9 * 60 + 15 <= time /\ time <= 15 * 60 + 30

\* C29: when an execute button (one pair, all profitable pairs, the theta
\* pair) is clicked outside 9:15 AM to 3:30 PM IST, no leg is sent to the
\* gateway and no order_history row is written.
C29_NoOrdersOutsideMarketHours ==
    ~WithinMarketHours(current_time) =>
        /\ gateway_calls = << >>
        /\ order_history = << >>

=============================================================================
